---- MODULE Spec2Model ----
(***************************************************************************)
(* Model of src/app.js (lines 1-1237, the current application): the        *)
(* per-pilot and global interval indices, the onTick resolver, the         *)
(* arrow-key seek handler, load()/loaded(), Delete and the video rate      *)
(* hand-over.                                                              *)
(*                                                                         *)
(* Time.  A JulianDate is modelled as an integer number of seconds counted *)
(* from the start of Julian day EpochDay; one unit is one second, so the   *)
(* epsilon of 1 second used by the seek handler is one unit.               *)
(*                                                                         *)
(* Intervals.  Every TimeInterval the application creates has              *)
(* isStartIncluded = true (the default) and isStopIncluded = false (lines  *)
(* 249, 428), and every interval the collection derives from them when it  *)
(* truncates or splits keeps these flags, so an interval is the record     *)
(* [start, stop, data, orig] meaning [start, stop).  orig is TRUE when the *)
(* entry is the very TimeInterval object held in obj.interval (so that     *)
(* destroy()'s "this.interval.data = null" is seen through it) and FALSE   *)
(* for a clone or for an interval made by the collection.                  *)
(***************************************************************************)
EXTENDS Integers, Sequences, FiniteSets, TLC

(* ---------------------------------------------------------------------- *)
(* Program constants                                                      *)
(* ---------------------------------------------------------------------- *)
DEFAULT_RATE == 50
DEFAULT_DURATION == 5
JUMP_SECONDS == 10

\* Seconds in a day (JulianDate keeps dayNumber and secondsOfDay).
DaySeconds == 86400
\* Julian day on which model time 0 falls; every timestamp the application
\* parses has dayNumber > 0, the unset jump is JulianDate(0, 0).
EpochDay == 10000

(* ---------------------------------------------------------------------- *)
(* Bounds of the model                                                    *)
(* ---------------------------------------------------------------------- *)
\* Plain seeks and natural ticks are only taken while they stay in
\* MinTime..MaxTime.
MinTime == 5
MaxTime == 45
\* Largest advance of the clock in one natural tick (|multiplier| * dt).
MaxTickStep == 2

(* ---------------------------------------------------------------------- *)
(* Values                                                                 *)
(* ---------------------------------------------------------------------- *)
None == "none"                  \* null / undefined object reference
Undefined == [start |-> -1, stop |-> -1, data |-> None, orig |-> FALSE]
Defined(iv) == iv # Undefined

Abs(x) == IF x < 0 THEN -x ELSE x
Max(a, b) == IF a > b THEN a ELSE b
BitNot(i) == -i - 1             \* JavaScript ~i

\* jump.dayNumber of a JulianDate
DayNumber(t) == (t + EpochDay * DaySeconds) \div DaySeconds
\* new Cesium.JulianDate(0, 0, ...): dayNumber 0, the "no decision" value
Unset == -(EpochDay * DaySeconds)

\* Cesium.JulianDate.equalsEpsilon(left, right, epsilon); epsilon defaults to 0
EqualsEpsilon(left, right, epsilon) == Abs(left - right) <= epsilon

(* ---------------------------------------------------------------------- *)
(* Cesium.TimeIntervalCollection, 0-based indices as in JavaScript        *)
(* ---------------------------------------------------------------------- *)
Get(coll, index) ==
    IF index >= 0 /\ index < Len(coll) THEN coll[index + 1] ELSE Undefined

InsertAt(coll, index, iv) ==
    SubSeq(coll, 1, index) \o <<iv>> \o SubSeq(coll, index + 1, Len(coll))

RemoveAt(coll, index) ==
    SubSeq(coll, 1, index) \o SubSeq(coll, index + 2, Len(coll))

ReplaceAt(coll, index, iv) == [coll EXCEPT ![index + 1] = iv]

Piece(start, stop, data) ==
    [start |-> start, stop |-> stop, data |-> data, orig |-> FALSE]

\* TimeInterval.isEmpty for a [start, stop) interval
IsEmpty(iv) == iv.stop <= iv.start

\* A containment test that also takes the stop instant
ContainsClosed(iv, date) ==
    ~IsEmpty(iv) /\ iv.start <= date /\ date <= iv.stop

\* TimeInterval.contains for a [start, stop) interval
Contains(iv, date) ==
    IF IsEmpty(iv) THEN FALSE
    ELSE IF iv.start = date THEN TRUE
    ELSE IF iv.stop = date THEN FALSE
    ELSE iv.start < date /\ date < iv.stop

\* binarySearch(intervals, item, compareIntervalStartTimes)
RECURSIVE BinarySearchFrom(_, _, _, _)
BinarySearchFrom(coll, start, low, high) ==
    IF low > high THEN BitNot(high + 1)
    ELSE LET i == (low + high) \div 2
             comparison == coll[i + 1].start - start
         IN  IF comparison < 0 THEN BinarySearchFrom(coll, start, i + 1, high)
             ELSE IF comparison > 0 THEN BinarySearchFrom(coll, start, low, i - 1)
             ELSE i

BinarySearch(coll, start) == BinarySearchFrom(coll, start, 0, Len(coll) - 1)

\* TimeIntervalCollection.indexOf(date): the index of the containing
\* interval, or ~i with i the index of the first interval after date.
IndexFrom(coll, date, found) ==
    IF found >= 0 THEN found
    ELSE IF BitNot(found) > 0 /\ BitNot(found) - 1 < Len(coll)
            /\ Contains(coll[BitNot(found)], date)
    THEN BitNot(found) - 1
    ELSE found

IndexOf(coll, date) == IndexFrom(coll, date, BinarySearch(coll, date))

DataAt(coll, index) == IF index >= 0 THEN Get(coll, index).data ELSE None

\* TimeIntervalCollection.findIntervalContainingDate(date), then ".data"
FindData(coll, date) == DataAt(coll, IndexOf(coll, date))

\* The index addInterval and removeInterval work at: where an interval
\* starting at start is, or would be inserted
InsertionPoint(coll, start) ==
    LET found == BinarySearch(coll, start)
    IN  IF found < 0 THEN BitNot(found) ELSE found

\* addInterval, first half, when the interval before the insertion point
\* reaches the new one: merged if it has the same data, else cut
AddPrevOver(coll, iv, index, prev) ==
    IF prev.data = iv.data
    THEN [coll |-> RemoveAt(coll, index - 1),
          interval |-> Piece(prev.start, Max(prev.stop, iv.stop), iv.data),
          index |-> index - 1]
    ELSE [coll |-> ReplaceAt(IF prev.stop > iv.stop
                             THEN InsertAt(coll, index,
                                           Piece(iv.stop, prev.stop, prev.data))
                             ELSE coll,
                             index - 1, Piece(prev.start, iv.start, prev.data)),
          interval |-> iv,
          index |-> index]

\* addInterval, first half: the interval before the insertion point
AddPrev(coll, iv, index) ==
    IF index > 0 /\ coll[index].stop >= iv.start
    THEN AddPrevOver(coll, iv, index, coll[index])
    ELSE [coll |-> coll, interval |-> iv, index |-> index]

\* addInterval, second half: the intervals after the insertion point
RECURSIVE AddNext(_, _, _)
AddNext(coll, iv, index) ==
    IF index < Len(coll) /\ iv.stop >= coll[index + 1].start
    THEN IF coll[index + 1].data = iv.data
         THEN AddNext(RemoveAt(coll, index),
                      Piece(iv.start, Max(coll[index + 1].stop, iv.stop), iv.data),
                      index)
         ELSE IF IsEmpty(Piece(iv.stop, coll[index + 1].stop, coll[index + 1].data))
         THEN AddNext(RemoveAt(coll, index), iv, index)
         ELSE [coll |-> ReplaceAt(coll, index,
                                  Piece(iv.stop, coll[index + 1].stop,
                                        coll[index + 1].data)),
               interval |-> iv, index |-> index]
    ELSE [coll |-> coll, interval |-> iv, index |-> index]

AddNextOf(before) == AddNext(before.coll, before.interval, before.index)

Spliced(after) == InsertAt(after.coll, after.index, after.interval)

\* TimeIntervalCollection.addInterval(interval): the new interval wins over
\* what it overlaps; intervals with the same data are merged.
AddInterval(coll, iv) ==
    IF IsEmpty(iv) THEN coll
    ELSE IF Len(coll) = 0 \/ iv.start > coll[Len(coll)].stop THEN Append(coll, iv)
    ELSE Spliced(AddNextOf(AddPrev(coll, iv, InsertionPoint(coll, iv.start))))

\* removeInterval: the interval before the insertion point is cut
RemovePrev(coll, iv, index) ==
    IF index > 0 /\ coll[index].stop > iv.start
    THEN ReplaceAt(IF coll[index].stop > iv.stop
                   THEN InsertAt(coll, index,
                                 Piece(iv.stop, coll[index].stop, coll[index].data))
                   ELSE coll,
                   index - 1, Piece(coll[index].start, iv.start, coll[index].data))
    ELSE coll

\* removeInterval: "Remove any intervals that are completely overlapped"
RECURSIVE RemoveCovered(_, _, _)
RemoveCovered(coll, iv, index) ==
    IF index < Len(coll) /\ iv.stop > coll[index + 1].stop
    THEN RemoveCovered(RemoveAt(coll, index), iv, index)
    ELSE coll

\* removeInterval: an interval that ends where the removed one ends goes
RemoveEqual(coll, iv, index) ==
    IF index < Len(coll) /\ iv.stop = coll[index + 1].stop
    THEN RemoveAt(coll, index)
    ELSE coll

\* removeInterval: the interval that begins inside the removed one is cut
RemoveNext(coll, iv, index) ==
    IF index < Len(coll) /\ iv.stop > coll[index + 1].start
    THEN ReplaceAt(coll, index,
                   Piece(iv.stop, coll[index + 1].stop, coll[index + 1].data))
    ELSE coll

RemoveAtPoint(coll, iv, index) ==
    RemoveNext(RemoveEqual(RemoveCovered(RemovePrev(coll, iv, index), iv, index),
                           iv, index),
               iv, index)

\* TimeIntervalCollection.removeInterval(interval): removes the span
\* [start, stop) from the collection, whatever data covers it.
RemoveInterval(coll, iv) ==
    IF IsEmpty(iv) THEN coll
    ELSE RemoveAtPoint(coll, iv, InsertionPoint(coll, iv.start))

(* ---------------------------------------------------------------------- *)
(* The input: metadata.json, the files it names and the files dropped     *)
(* ---------------------------------------------------------------------- *)
AnyPilot == ""                       \* the name of the "any" pilot (line 782)
PilotNames == {"", "a", "b", "c", "d", "7"}
Flights == {"F1", "F2", "F3", "F4", "F5", "F6", "F7", "F8"}
Videos == {"V1", "V0", "V2", "V3", "V4", "V5"}
Objects == Flights \cup Videos

\* igcData of each flight log: the pilot, the first and the last fix time
IgcData ==
    "F1" :> [pilot |-> "a", first |-> 10, last |-> 22] @@
    "F2" :> [pilot |-> "a", first |-> 18, last |-> 26] @@
    "F3" :> [pilot |-> "b", first |-> 12, last |-> 20] @@
    "F4" :> [pilot |-> "c", first |-> 24, last |-> 30] @@
    "F5" :> [pilot |-> "d", first |-> 14, last |-> 28] @@
    "F6" :> [pilot |-> "b", first |-> 22, last |-> 34] @@
    "F7" :> [pilot |-> "7", first |-> 36, last |-> 40] @@
    "F8" :> [pilot |-> "a", first |-> 43, last |-> 43]

\* videoData of each video/image; 0 stands for an absent duration or rate.
\* element is element.duration, read on "loadedmetadata" when the metadata
\* gives no duration.
VideoData ==
    "V1" :> [pilot |-> "a", timestamp |-> 30, duration |-> 0, element |-> 1,
             rate |-> 10, image |-> FALSE] @@
    "V0" :> [pilot |-> "", timestamp |-> 32, duration |-> 0, element |-> 0,
             rate |-> 0, image |-> TRUE] @@
    "V2" :> [pilot |-> "a", timestamp |-> 10, duration |-> 0, element |-> 25,
             rate |-> 0, image |-> FALSE] @@
    "V3" :> [pilot |-> "a", timestamp |-> 14, duration |-> 0, element |-> 0,
             rate |-> 0, image |-> TRUE] @@
    "V4" :> [pilot |-> "a", timestamp |-> 7, duration |-> 1, element |-> 0,
             rate |-> 0, image |-> TRUE] @@
    "V5" :> [pilot |-> "a", timestamp |-> 33, duration |-> 2, element |-> 0,
             rate |-> 0, image |-> TRUE]

\* metadata.flights and metadata.videos, in the order load() walks them
Metadata == [flights |-> <<"F1">>, videos |-> <<"V1", "V0">>]
LoadSteps == Metadata.flights \o Metadata.videos
\* flight logs that may be dropped on the window
DropFiles == {"F2"}
\* a flight log of a single fix, at 43, that may be dropped on the window:
\* its interval is [43,43), which is empty as the stop is excluded (249)
SingleFixFiles == {"F8"}
\* video files that may be dropped on the window: the drop handler gives
\* them the name of state.pilot and the clock's time as timestamp, so V2
\* is a file dropped while pilot a is selected and the clock is at 10
DropVideos == {"V2"}
\* image files that may be dropped on the window: V3 is a photo dropped
\* while pilot a is selected and the clock is at 14, inside flight F1; V4 is
\* a photo shown for one second, dropped at 7, before every flight
DropImages == {"V3"}
ShortImages == {"V4"}
\* V5 is a photo of pilot a shown for two seconds, dropped at 33, inside
\* the video V1 of the same pilot
InsideImages == {"V5"}
\* flight logs of further pilots that may be dropped on the window
PilotDropFiles == {"F2", "F3", "F4", "F5", "F6", "F7"}

\* JulianDate.now() when the Viewer builds its clock
Now == MaxTime

VARIABLES
    pilots,         \* the keys of state.pilots in creation order (Pilot.index)
    next, prev,     \* Pilot.next, Pilot.prev
    flights,        \* Pilot.flights of each pilot
    videos,         \* Pilot.videos of each pilot
    intervals,      \* state.intervals
    pilot,          \* state.pilot
    objInterval,    \* obj.interval (Undefined for null)
    objPilot,       \* obj.pilot
    originalRate,   \* Video.originalRate (0 for null)
    ticker,         \* Video.ticker is set
    element,        \* Video.element: the <video> or <div> of each video
    currentTime, startTime, stopTime,   \* viewer.clock
    multiplier, shouldAnimate, clockRange,
    currentFlight, currentVideo,        \* closure variables of initialize()
    loadPc,         \* position of load() in LoadSteps
    log,            \* console.log lines of the handler that ran last
    destroyed,      \* the objects destroy() has run on
    fixes, fixIndex,        \* igcData.fixes and i of the Flight.create running
    trackerStack,           \* its locals trackerStack,
    trackerCartesian,       \* trackerCartesian
    trackerPositions,       \* and the samples added to trackerPositions
    videoData,      \* the videoData of the Video.create running
    createdInterval \* the interval the running create() has built

vars == <<pilots, next, prev, flights, videos, intervals, pilot, objInterval,
          objPilot, originalRate, ticker, element, currentTime, startTime,
          stopTime, multiplier, shouldAnimate, clockRange, currentFlight, currentVideo,
          loadPc, log, destroyed, fixes, fixIndex, trackerStack,
          trackerCartesian, trackerPositions, videoData, createdInterval>>

\* The variables of the application and those of a running Flight.create
appVars == <<pilots, next, prev, flights, videos, intervals, pilot, objInterval,
             objPilot, originalRate, ticker, element, currentTime, startTime,
             stopTime, multiplier, shouldAnimate, clockRange, currentFlight,
             currentVideo, loadPc, log, destroyed>>
trackerVars == <<fixes, fixIndex, trackerStack, trackerCartesian, trackerPositions>>
createVars == <<trackerVars, videoData, createdInterval>>

(* ---------------------------------------------------------------------- *)
(* Pilot                                                                  *)
(* ---------------------------------------------------------------------- *)
\* The pilot names that are canonical array indexes, with their values
IndexKeys == "7" :> 7

IsIndexKey(name) == name \in DOMAIN IndexKeys
IsStringKey(name) == name \notin DOMAIN IndexKeys

\* names in ascending order of their index values, inserting one at a time
RECURSIVE SortedKeys(_)
SortedKeys(names) ==
    IF Len(names) <= 1 THEN names
    ELSE LET rest == SortedKeys(Tail(names))
             before == SelectSeq(rest, LAMBDA n : IndexKeys[n] < IndexKeys[Head(names)])
             after == SelectSeq(rest, LAMBDA n : IndexKeys[n] >= IndexKeys[Head(names)])
         IN  before \o <<Head(names)>> \o after

\* Object.keys(state.pilots) / Object.values(state.pilots): the order of
\* the own properties of an object, index keys first in ascending order,
\* then the other keys in the order they were created
ObjectKeys(names) ==
    SortedKeys(SelectSeq(names, IsIndexKey)) \o SelectSeq(names, IsStringKey)

\* A constructor that leaves out "this.next.prev = this"
NewPilotHalfLinked(ps, name) ==
    LET first == IF Len(ps.pilots) = 0 THEN name ELSE ObjectKeys(ps.pilots)[1]
        thisNext == first
        thisPrev == IF first = name THEN name ELSE ps.prev[first]
        n1 == [ps.next EXCEPT ![name] = thisNext]
        p1 == [ps.prev EXCEPT ![name] = thisPrev]
    IN  [pilots |-> Append(ps.pilots, name),
         next |-> [n1 EXCEPT ![thisPrev] = name],
         prev |-> p1]

\* new Pilot(name): appended to state.pilots and linked in before the first
NewPilot(ps, name) ==
    LET first == IF Len(ps.pilots) = 0 THEN name ELSE ObjectKeys(ps.pilots)[1]
        thisNext == first
        thisPrev == IF first = name THEN name ELSE ps.prev[first]
        n1 == [ps.next EXCEPT ![name] = thisNext]
        p1 == [ps.prev EXCEPT ![name] = thisPrev]
    IN  [pilots |-> Append(ps.pilots, name),
         next |-> [n1 EXCEPT ![thisPrev] = name],
         prev |-> [p1 EXCEPT ![thisNext] = name]]

\* Pilot.ensure(name)
EnsurePilot(ps, name) ==
    IF \E i \in 1..Len(ps.pilots) : ps.pilots[i] = name THEN ps
    ELSE NewPilot(ps, name)

\* The interval object of a flight (lines 246-251) or video (lines 421-430)
VideoRate(v) ==
    IF VideoData[v].rate # 0 /\ VideoData[v].rate > 0 THEN VideoData[v].rate ELSE 1

\* videoData.duration when completeVideo runs (lines 413, 470-487)
VideoDuration(v) ==
    LET given == IF VideoData[v].image \/ VideoData[v].duration # 0
                 THEN VideoData[v].duration
                 ELSE VideoData[v].element
    IN  IF given # 0 THEN given ELSE DEFAULT_DURATION

NewInterval(obj) ==
    IF obj \in Flights
    THEN [start |-> IgcData[obj].first, stop |-> IgcData[obj].last,
          data |-> obj, orig |-> TRUE]
    ELSE [start |-> VideoData[obj].timestamp,
          stop |-> VideoData[obj].timestamp + VideoDuration(obj) * VideoRate(obj),
          data |-> obj, orig |-> TRUE]

Clone(iv) == [iv EXCEPT !.orig = FALSE]

\* Pilot.add(obj) on the index of its kind: remove, then add
PilotAddIndex(coll, iv) == AddInterval(RemoveInterval(coll, iv), iv)

\* Pilot.add(obj): what it adds to state.intervals
PilotAddGlobal(global, iv) == AddInterval(global, Clone(iv))

\* Pilot.remove(obj) on the index of its kind
PilotRemoveIndex(coll, iv) == RemoveInterval(coll, iv)

\* destroy(): "this.interval.data = null", seen through every collection
\* that holds that very interval object
NullData(coll, obj) ==
    [i \in 1..Len(coll) |->
        IF coll[i].orig /\ coll[i].data = obj
        THEN [coll[i] EXCEPT !.data = None] ELSE coll[i]]

\* Object.values(state.pilots).forEach over one kind of index (loaded())
RECURSIVE AddAll(_, _)
AddAll(global, coll) ==
    IF Len(coll) = 0 THEN global
    ELSE AddAll(AddInterval(global, Head(coll)), Tail(coll))

RECURSIVE AddPilots(_, _, _)
AddPilots(global, names, index) ==
    IF Len(names) = 0 THEN global
    ELSE AddPilots(AddAll(global, index[Head(names)]), Tail(names), index)

\* loaded(): "Recreate the global intervals, videos overlay flights"
Rebuild(names, fl, vd) ==
    AddPilots(AddPilots(<<>>, ObjectKeys(names), fl), ObjectKeys(names), vd)

(* ---------------------------------------------------------------------- *)
(* Video.start / Video.stop and the resolver                              *)
(* ---------------------------------------------------------------------- *)
Direction(mult) == IF mult < 0 THEN -1 ELSE 1

\* The media element.  element.currentTime and element.playbackRate are
\* kept in tenths: currentTime 25 is 2.5 seconds into the media,
\* playbackRate 10 is 1 and playbackRate 1 is 0.1.  A <div> made for an
\* image has no currentTime, playbackRate, play or pause: its fields other
\* than visible are never written.
NewElement ==
    [currentTime |-> 0, playbackRate |-> 10, paused |-> TRUE, visible |-> FALSE]

\* Cesium.Math.equalsEpsilon(left, right, relativeEpsilon, absoluteEpsilon)
\* with relativeEpsilon given in tenths
MathEqualsEpsilon(left, right, relativeTenths, absoluteEpsilon) ==
    \/ Abs(left - right) <= absoluteEpsilon
    \/ 10 * Abs(left - right) <= relativeTenths * Max(Abs(left), Abs(right))

\* secondsDifference(clock.currentTime, interval.start) / rate, in tenths
Elapsed(v, t) == ((t - objInterval[v].start) * 10) \div VideoRate(v)

\* syncVideo writes element.currentTime (lines 552-555)
Resync(e, at) == ~MathEqualsEpsilon(at, e.currentTime, 1, 10)

\* A syncVideo that gives the element the clock's rate, sign and magnitude
SyncElementScaled(e, at, mult, animate) ==
    [e EXCEPT !.currentTime = IF Resync(e, at) THEN at ELSE @,
              !.playbackRate = 10 * mult,
              !.paused = IF animate /\ @ THEN FALSE
                         ELSE IF ~animate /\ ~@ THEN TRUE
                         ELSE @]

\* A syncVideo that starts the element and never pauses it
SyncElementPlayOnly(e, at, mult, animate) ==
    [e EXCEPT !.currentTime = IF Resync(e, at) THEN at ELSE @,
              !.playbackRate = IF mult < 0 THEN 1 ELSE 10,
              !.paused = IF animate /\ @ THEN FALSE ELSE @]

\* syncVideo on the element e (lines 551-564)
SyncElement(e, at, mult, animate) ==
    [e EXCEPT !.currentTime = IF Resync(e, at) THEN at ELSE @,
              !.playbackRate = IF mult < 0 THEN 1 ELSE 10,
              !.paused = IF animate /\ @ THEN FALSE
                         ELSE IF ~animate /\ ~@ THEN TRUE
                         ELSE @]

\* r is the record [currentFlight, currentVideo, multiplier, originalRate,
\* ticker, element, clockTime, animate, log] the handlers thread through:
\* clockTime and animate are clock.currentTime and clock.shouldAnimate as
\* the handler has set them; log collects the console.log lines "Flight
\* old -> new" (line 798), "Video old -> new" (line 843) and "Syncing"
\* (line 553).
SyncVideo(v, r) ==
    [r EXCEPT !.element[v] = SyncElement(@, Elapsed(v, r.clockTime),
                                         r.multiplier, r.animate),
              !.log = IF Resync(r.element[v], Elapsed(v, r.clockTime))
                      THEN Append(@, "Syncing") ELSE @]

\* The syncVideo listeners registered on clock.onTick
RECURSIVE SyncTickers(_, _)
SyncTickers(vs, r) ==
    IF vs = {} THEN r
    ELSE LET v == CHOOSE x \in vs : TRUE
         IN  SyncTickers(vs \ {v}, IF r.ticker[v] THEN SyncVideo(v, r) ELSE r)

\* A stop that leaves the clock's rate as the video set it
VideoStopKeepsRate(v, r) ==
    [r EXCEPT !.element[v].visible = FALSE,
              !.ticker[v] = FALSE,
              !.element[v].paused = IF VideoData[v].image THEN @ ELSE TRUE]

\* A stop that puts back the rate as it was recorded, direction included
VideoStopRecorded(v, r) ==
    [r EXCEPT !.element[v].visible = FALSE,
              !.ticker[v] = FALSE,
              !.element[v].paused = IF VideoData[v].image THEN @ ELSE TRUE,
              !.multiplier = r.originalRate[v]]

\* Video.stop
VideoStop(v, r) ==
    [r EXCEPT !.element[v].visible = FALSE,
              !.ticker[v] = FALSE,
              !.element[v].paused = IF VideoData[v].image THEN @ ELSE TRUE,
              !.multiplier = Abs(r.originalRate[v]) * Direction(r.multiplier)]

\* "If this is a <video>, do a synchronizer" (lines 571-575)
Hooked(v, r) ==
    IF VideoData[v].image THEN r
    ELSE SyncVideo(v, [r EXCEPT !.ticker[v] = TRUE])

\* "Actually show the video" (line 578)
Shown(v, r) == [r EXCEPT !.element[v].visible = TRUE]

\* A start that sets the clock rate to the video's rate whatever the
\* direction of the clock
VideoStartUnsigned(v, r) ==
    Shown(v, Hooked(v, [r EXCEPT !.originalRate[v] = r.multiplier,
                                 !.multiplier = VideoRate(v)]))

\* Video.start
VideoStart(v, r) ==
    Shown(v, Hooked(v, [r EXCEPT !.originalRate[v] = r.multiplier,
                                 !.multiplier = VideoRate(v) * Direction(r.multiplier)]))

ChangeFlight(flight, r) ==
    [r EXCEPT !.currentFlight = flight, !.log = Append(r.log, "Flight")]

ChangeVideo(video, r) ==
    LET stopped == IF r.currentVideo # None THEN VideoStop(r.currentVideo, r) ELSE r
        changed == [stopped EXCEPT !.currentVideo = video]
        started == IF video # None THEN VideoStart(video, changed) ELSE changed
    IN  [started EXCEPT !.log = Append(@, "Video")]

\* "The flight and video we should be on" (lines 1105-1115)
ResolveFlight(fl, p, t) == FindData(fl[p], t)

\* A resolver that looks at the any pilot's videos first
ResolveVideoAnyFirst(vd, p, t) ==
    IF FindData(vd[AnyPilot], t) # None THEN FindData(vd[AnyPilot], t)
    ELSE FindData(vd[p], t)

ResolveVideo(vd, p, t) ==
    LET own == FindData(vd[p], t)
    IN  IF own = None /\ p # AnyPilot THEN FindData(vd[AnyPilot], t) ELSE own

\* A listener that applies the resolved flight on every tick
OnTickAlways(fl, vd, p, t, r) ==
    IF ResolveVideo(vd, p, t) # r.currentVideo
    THEN ChangeVideo(ResolveVideo(vd, p, t),
                     ChangeFlight(ResolveFlight(fl, p, t), r))
    ELSE ChangeFlight(ResolveFlight(fl, p, t), r)

\* The onTick listener (lines 1095-1124)
OnTick(fl, vd, p, t, r) ==
    LET flight == ResolveFlight(fl, p, t)
        video == ResolveVideo(vd, p, t)
        r1 == IF flight # r.currentFlight THEN ChangeFlight(flight, r) ELSE r
    IN  IF video # r.currentVideo THEN ChangeVideo(video, r1) ELSE r1

\* clock.onTick.raiseEvent(clock) at clock time t: the resolver, then the
\* syncVideo listeners
RaiseEvent(fl, vd, p, t, r) ==
    SyncTickers(Videos, OnTick(fl, vd, p, t, [r EXCEPT !.clockTime = t]))

\* The handler's view of the mutable playback state, with what it has
\* logged so far
Playback(lines) ==
    [currentFlight |-> currentFlight, currentVideo |-> currentVideo,
     multiplier |-> multiplier, originalRate |-> originalRate,
     ticker |-> ticker, element |-> element, clockTime |-> currentTime,
     animate |-> shouldAnimate, log |-> lines]

SetPlayback(r) ==
    /\ currentFlight' = r.currentFlight
    /\ currentVideo' = r.currentVideo
    /\ multiplier' = r.multiplier
    /\ originalRate' = r.originalRate
    /\ ticker' = r.ticker
    /\ element' = r.element
    /\ log' = r.log

(* ---------------------------------------------------------------------- *)
(* The arrow-key seek (keydown handler, lines 860-1018)                   *)
(* ---------------------------------------------------------------------- *)
BoolNum(b) == IF b THEN 1 ELSE 0

Decision(jump, line) == [jump |-> jump, log |-> line]

\* A boundary matching that does not flip to "before" at a start
SeekBoundaryForwardOnly(ivs, current, left, index) ==
    IF index >= 0 /\ ~left /\ EqualsEpsilon(current, Get(ivs, index).stop, 0)
    THEN [index |-> BitNot(index + 1), log |-> <<"Jumping assuming after">>]
    ELSE [index |-> index, log |-> <<>>]

\* Lines 879-889: at a boundary of the interval the time is in
SeekBoundary(ivs, current, left, index) ==
    IF index >= 0 /\ left /\ EqualsEpsilon(current, Get(ivs, index).start, 1)
    THEN [index |-> BitNot(index), log |-> <<"Jump assuming before">>]
    ELSE IF index >= 0 /\ ~left /\ EqualsEpsilon(current, Get(ivs, index).stop, 0)
    THEN [index |-> BitNot(index + 1), log |-> <<"Jumping assuming after">>]
    ELSE [index |-> index, log |-> <<>>]

\* A matching that takes a time as within a neighbour only when it is
\* exactly at its edge
SeekWithinExact(ivs, current, left, at) ==
    IF at.index < 0 /\ left /\ Defined(Get(ivs, BitNot(at.index) - 1))
       /\ EqualsEpsilon(current, Get(ivs, BitNot(at.index) - 1).stop, 0)
    THEN [index |-> BitNot(at.index) - 1,
          log |-> Append(at.log, "Jump assuming within")]
    ELSE IF at.index < 0 /\ ~left /\ Defined(Get(ivs, BitNot(at.index)))
            /\ EqualsEpsilon(current, Get(ivs, BitNot(at.index)).start, 0)
    THEN [index |-> BitNot(at.index),
          log |-> Append(at.log, "Jump assuming within")]
    ELSE at

\* Lines 890-904: within epsilon of the neighbouring interval
SeekWithin(ivs, current, left, at) ==
    IF at.index < 0 /\ left /\ Defined(Get(ivs, BitNot(at.index) - 1))
       /\ EqualsEpsilon(current, Get(ivs, BitNot(at.index) - 1).stop, 1)
    THEN [index |-> BitNot(at.index) - 1,
          log |-> Append(at.log, "Jump assuming within")]
    ELSE IF at.index < 0 /\ ~left /\ Defined(Get(ivs, BitNot(at.index)))
            /\ EqualsEpsilon(current, Get(ivs, BitNot(at.index)).start, 1)
    THEN [index |-> BitNot(at.index),
          log |-> Append(at.log, "Jump assuming within")]
    ELSE at

\* Lines 870-904: the index after the boundary epsilon matching
SeekIndex(ivs, current, left) ==
    SeekWithin(ivs, current, left,
               SeekBoundary(ivs, current, left, IndexOf(ivs, current)))

\* An in-interval decision whose Ctrl branches take the opposite edge
SeekInsideSwapped(ivs, index, current, left, ctrl, seconds, startT, stopT) ==
    IF index < 0 THEN Decision(Unset, <<>>)
    ELSE IF index = 0 /\ ctrl /\ left
            /\ EqualsEpsilon(current, Get(ivs, index).start, 1)
    THEN Decision(startT, <<"Jumping to beginning">>)
    ELSE IF ctrl /\ left
    THEN Decision(Get(ivs, index).stop, <<"Jumping to start">>)
    ELSE IF ctrl /\ ~left
    THEN Decision(Get(ivs, index).start, <<"Jumping to stop">>)
    ELSE IF IndexOf(ivs, current + seconds) # index
    THEN Decision(Unset, <<>>)
    ELSE Decision(current + seconds,
                  <<IF left THEN "Jumping backwards in" ELSE "Jumping forwards in">>)

\* Lines 906-947: the decision taken inside an interval
SeekInside(ivs, index, current, left, ctrl, seconds, startT, stopT) ==
    IF index < 0 THEN Decision(Unset, <<>>)
    ELSE IF index = 0 /\ ctrl /\ left
            /\ EqualsEpsilon(current, Get(ivs, index).start, 1)
    THEN Decision(startT, <<"Jumping to beginning">>)
    ELSE IF index = Len(ivs) /\ ctrl /\ ~left
            /\ EqualsEpsilon(current, Get(ivs, index).stop, 0)
    THEN (IF ctrl /\ BoolNum(index = Len(ivs)) < 1
          THEN Decision(stopT, <<"Jumping to ending">>)
          ELSE Decision(Unset, <<>>))
    ELSE IF ctrl /\ left
    THEN Decision(Get(ivs, index).start, <<"Jumping to start">>)
    ELSE IF ctrl /\ ~left
    THEN Decision(Get(ivs, index).stop, <<"Jumping to stop">>)
    ELSE IF IndexOf(ivs, current + seconds) # index
    THEN Decision(Unset, <<>>)
    ELSE Decision(current + seconds,
                  <<IF left THEN "Jumping backwards in" ELSE "Jumping forwards in">>)

\* An out-of-interval decision whose Ctrl+Right takes the stop of the next
\* interval
SeekOutsideNextStop(ivs, index, current, left, ctrl, seconds, startT, stopT) ==
    IF ctrl /\ left
    THEN (IF Defined(Get(ivs, BitNot(index) - 1))
          THEN Decision(Get(ivs, BitNot(index) - 1).stop, <<"Jumping to prev stop">>)
          ELSE Decision(startT, <<"Jumping to beginning">>))
    ELSE IF ctrl /\ ~left
    THEN (IF Defined(Get(ivs, BitNot(index)))
          THEN Decision(Get(ivs, BitNot(index)).stop, <<"Jumping to next start">>)
          ELSE Decision(stopT, <<"Jumping to ending">>))
    ELSE Decision(current + seconds,
                  <<IF left THEN "Jumping backwards" ELSE "Jumping forwards">>)

\* An out-of-interval decision that stays where it is when Ctrl finds no
\* interval on that side
SeekOutsideStay(ivs, index, current, left, ctrl, seconds, startT, stopT) ==
    IF ctrl /\ left
    THEN (IF Defined(Get(ivs, BitNot(index) - 1))
          THEN Decision(Get(ivs, BitNot(index) - 1).stop, <<"Jumping to prev stop">>)
          ELSE Decision(current, <<"Jumping to beginning">>))
    ELSE IF ctrl /\ ~left
    THEN (IF Defined(Get(ivs, BitNot(index)))
          THEN Decision(Get(ivs, BitNot(index)).start, <<"Jumping to next start">>)
          ELSE Decision(current, <<"Jumping to ending">>))
    ELSE Decision(current + seconds,
                  <<IF left THEN "Jumping backwards" ELSE "Jumping forwards">>)

\* An out-of-interval decision that takes the far bound when Ctrl finds no
\* interval on the side of the seek
SeekOutsideFarBound(ivs, index, current, left, ctrl, seconds, startT, stopT) ==
    IF ctrl /\ left
    THEN (IF Defined(Get(ivs, BitNot(index) - 1))
          THEN Decision(Get(ivs, BitNot(index) - 1).stop, <<"Jumping to prev stop">>)
          ELSE Decision(stopT, <<"Jumping to beginning">>))
    ELSE IF ctrl /\ ~left
    THEN (IF Defined(Get(ivs, BitNot(index)))
          THEN Decision(Get(ivs, BitNot(index)).start, <<"Jumping to next start">>)
          ELSE Decision(startT, <<"Jumping to ending">>))
    ELSE Decision(current + seconds,
                  <<IF left THEN "Jumping backwards" ELSE "Jumping forwards">>)

\* An out-of-interval decision that decides only for the Ctrl seeks
SeekOutsideCtrlOnly(ivs, index, current, left, ctrl, seconds, startT, stopT) ==
    IF ctrl /\ left
    THEN (IF Defined(Get(ivs, BitNot(index) - 1))
          THEN Decision(Get(ivs, BitNot(index) - 1).stop, <<"Jumping to prev stop">>)
          ELSE Decision(startT, <<"Jumping to beginning">>))
    ELSE IF ctrl /\ ~left
    THEN (IF Defined(Get(ivs, BitNot(index)))
          THEN Decision(Get(ivs, BitNot(index)).start, <<"Jumping to next start">>)
          ELSE Decision(stopT, <<"Jumping to ending">>))
    ELSE Decision(Unset, <<>>)

\* Lines 950-979: the decision taken when none was taken inside an interval
SeekOutside(ivs, index, current, left, ctrl, seconds, startT, stopT) ==
    IF ctrl /\ left
    THEN (IF Defined(Get(ivs, BitNot(index) - 1))
          THEN Decision(Get(ivs, BitNot(index) - 1).stop, <<"Jumping to prev stop">>)
          ELSE Decision(startT, <<"Jumping to beginning">>))
    ELSE IF ctrl /\ ~left
    THEN (IF Defined(Get(ivs, BitNot(index)))
          THEN Decision(Get(ivs, BitNot(index)).start, <<"Jumping to next start">>)
          ELSE Decision(stopT, <<"Jumping to ending">>))
    ELSE Decision(current + seconds,
                  <<IF left THEN "Jumping backwards" ELSE "Jumping forwards">>)

\* Lines 981-988: "if we're still in an interval, then jump to edge"
SeekEdge(ivs, index, left) ==
    IF index >= 0
    THEN Decision(IF left THEN Get(ivs, index).start ELSE Get(ivs, index).stop,
                  <<IF left THEN "Jumping to start of" ELSE "Jumping to stop of">>)
    ELSE Decision(Unset, <<>>)

\* Line 949: "if (!jump.dayNumber)"
OrOutside(d, ivs, index, current, left, ctrl, seconds, startT, stopT) ==
    IF DayNumber(d.jump) = 0
    THEN SeekOutside(ivs, index, current, left, ctrl, seconds, startT, stopT)
    ELSE d

\* Line 981: "if (!jump.dayNumber)"
OrEdge(d, ivs, index, left) ==
    IF DayNumber(d.jump) = 0 THEN SeekEdge(ivs, index, left) ELSE d

Logged(lines, d) == [jump |-> d.jump, log |-> lines \o d.log]

\* Lines 906-992 from the matched index at.index
SeekFrom(ivs, at, current, left, ctrl, seconds, startT, stopT) ==
    Logged(at.log,
           OrEdge(OrOutside(SeekInside(ivs, at.index, current, left, ctrl,
                                       seconds, startT, stopT),
                            ivs, at.index, current, left, ctrl, seconds,
                            startT, stopT),
                  ivs, at.index, left))

\* A step length that keeps the sign of the clock rate
SecondsSigned(left, mult) == JUMP_SECONDS * (IF left THEN -1 ELSE 1) * mult

\* Line 868: the length of a plain step
Seconds(left, mult) == JUMP_SECONDS * (IF left THEN -1 ELSE 1) * Abs(mult)

\* Lines 864-992: the time the handler decides to jump to, with its log
SeekTarget(ivs, current, left, ctrl, mult, startT, stopT) ==
    SeekFrom(ivs, SeekIndex(ivs, current, left), current, left, ctrl,
             Seconds(left, mult), startT, stopT)

\* Lines 994-1008: "See if we need to expand"
ExpandStart(jump, left, startT) == left /\ jump < startT
\* An expansion test that moves the stop bound to any other target
ExpandStopAny(jump, left, stopT) == ~left /\ jump # stopT
ExpandStop(jump, left, stopT) == ~left /\ jump > stopT

\* What lines 994-1014 log: the expansion, and the failed
\* assert(!expanded || !ctrl), which reports and goes on (lines 82-87)
ExpandLog(jump, left, ctrl, startT, stopT) ==
    (IF ExpandStart(jump, left, startT)
     THEN <<"Expanding beginning of timeline">> ELSE <<>>)
    \o (IF ExpandStop(jump, left, stopT)
        THEN <<"Expanding end of timeline">> ELSE <<>>)
    \o (IF ctrl /\ (ExpandStart(jump, left, startT) \/ ExpandStop(jump, left, stopT))
        THEN <<"Code problem">> ELSE <<>>)

\* A commit whose tick notification is resolved against the time before
\* the jump
CommitStale(left, ctrl, d) ==
    /\ ctrl \/ d.jump \in MinTime..MaxTime
    /\ startTime' = IF ExpandStart(d.jump, left, startTime)
                    THEN d.jump ELSE startTime
    /\ stopTime' = IF ExpandStop(d.jump, left, stopTime)
                   THEN d.jump ELSE stopTime
    /\ currentTime' = d.jump
    /\ SetPlayback(RaiseEvent(flights, videos, pilot, currentTime,
                          Playback(d.log \o ExpandLog(d.jump, left, ctrl,
                                                      startTime, stopTime))))

\* Lines 994-1020: expand, "Actually do the jump here", raiseEvent
Commit(left, ctrl, d) ==
    /\ ctrl \/ d.jump \in MinTime..MaxTime
    /\ startTime' = IF ExpandStart(d.jump, left, startTime)
                    THEN d.jump ELSE startTime
    /\ stopTime' = IF ExpandStop(d.jump, left, stopTime)
                   THEN d.jump ELSE stopTime
    /\ currentTime' = d.jump
    /\ SetPlayback(RaiseEvent(flights, videos, pilot, d.jump,
                          Playback(d.log \o ExpandLog(d.jump, left, ctrl,
                                                      startTime, stopTime))))

\* Left or Right arrow key, with or without Ctrl
ArrowKey(left, ctrl) ==
    /\ Len(intervals) > 0
    /\ Commit(left, ctrl, SeekTarget(intervals, currentTime, left, ctrl,
                                     multiplier, startTime, stopTime))
    /\ UNCHANGED <<createVars, pilots, next, prev, flights, videos, intervals, pilot,
                   objInterval, objPilot, shouldAnimate, clockRange, loadPc,
                   destroyed>>

(* ---------------------------------------------------------------------- *)
(* Creating and destroying flights and videos                             *)
(* ---------------------------------------------------------------------- *)
OwnerName(obj) ==
    IF obj \in Flights THEN IgcData[obj].pilot ELSE VideoData[obj].pilot

\* Pilot.ensure(owner) on the record w of what creation touches
Ensured(w, name) ==
    [w EXCEPT !.pilots = EnsurePilot(w, name).pilots,
              !.next = EnsurePilot(w, name).next,
              !.prev = EnsurePilot(w, name).prev]

\* pilot.add(obj) with the interval iv just made for obj
Added(obj, w, iv) ==
    [w EXCEPT !.flights[OwnerName(obj)] =
                  IF obj \in Flights THEN PilotAddIndex(@, iv) ELSE @,
              !.videos[OwnerName(obj)] =
                  IF obj \in Videos THEN PilotAddIndex(@, iv) ELSE @,
              !.intervals = PilotAddGlobal(@, iv),
              !.objInterval[obj] = iv,
              !.objPilot[obj] = OwnerName(obj)]

\* Flight.create / Video.create with completeVideo: Pilot.ensure, the new
\* interval, Pilot.add
Create(obj, w) == Added(obj, Ensured(w, OwnerName(obj)), NewInterval(obj))

World ==
    [pilots |-> pilots, next |-> next, prev |-> prev, flights |-> flights,
     videos |-> videos, intervals |-> intervals, objInterval |-> objInterval,
     objPilot |-> objPilot]

\* pilot.remove(obj)
Removed(obj, w) ==
    [w EXCEPT !.flights[w.objPilot[obj]] =
                  IF obj \in Flights THEN PilotRemoveIndex(@, w.objInterval[obj])
                  ELSE @,
              !.videos[w.objPilot[obj]] =
                  IF obj \in Videos THEN PilotRemoveIndex(@, w.objInterval[obj])
                  ELSE @,
              !.objPilot[obj] = None]

\* "this.interval.data = null; this.interval = null"
Cleared(obj, w) ==
    [w EXCEPT !.flights = [q \in PilotNames |-> NullData(@[q], obj)],
              !.videos = [q \in PilotNames |-> NullData(@[q], obj)],
              !.intervals = NullData(@, obj),
              !.objInterval[obj] = Undefined]

\* A destroy that forgets the pilot and leaves the indexes as they are
DestroyUnremoved(obj, w) == [w EXCEPT !.objPilot[obj] = None]

\* Flight.destroy / Video.destroy after stop()
Destroy(obj, w) == Cleared(obj, Removed(obj, w))

SetWorld(w) ==
    /\ pilots' = w.pilots
    /\ next' = w.next
    /\ prev' = w.prev
    /\ flights' = w.flights
    /\ videos' = w.videos
    /\ intervals' = w.intervals
    /\ objInterval' = w.objInterval
    /\ objPilot' = w.objPilot

(* ---------------------------------------------------------------------- *)
(* load() and loaded()                                                    *)
(* ---------------------------------------------------------------------- *)
\* load() stops at "await" for a flight log (fetch) and for a video whose
\* duration must come from "loadedmetadata"; an image or a video with a
\* given duration is created, and the await resumed, in the same task.
Waits(obj) ==
    obj \in Flights
    \/ (~VideoData[obj].image /\ VideoData[obj].duration = 0)

\* load() from the creation of LoadSteps[pc] up to its next stop: the
\* files created and the position reached
RECURSIVE LoadRun(_, _)
LoadRun(w, pc) ==
    LET created == Create(LoadSteps[pc], w)
    IN  IF pc < Len(LoadSteps) /\ ~Waits(LoadSteps[pc + 1])
        THEN LoadRun(created, pc + 1)
        ELSE [world |-> created, pc |-> pc + 1]

\* Object.keys(state.pilots).filter((n) => n).at(0)
RECURSIVE FirstNamed(_)
FirstNamed(names) ==
    IF Len(names) = 0 THEN None
    ELSE IF Head(names) # "" THEN Head(names)
    ELSE FirstNamed(Tail(names))

\* loaded(last) with the rebuilt state.intervals: set up the clock, go to
\* last
LoadedWith(last, w, p, global) ==
    /\ SetWorld([w EXCEPT !.intervals = global])
    /\ startTime' = IF Len(global) > 0 THEN global[1].start ELSE startTime
    /\ stopTime' = IF Len(global) > 0 THEN global[Len(global)].stop ELSE stopTime
    /\ clockRange' = IF Len(global) > 0 THEN "CLAMPED" ELSE clockRange
    /\ currentTime' = IF last # None THEN w.objInterval[last].start
                      ELSE IF Len(global) > 0 THEN global[1].start
                      ELSE currentTime
    /\ pilot' = IF last # None THEN w.objPilot[last] ELSE p

\* loaded(last)
Loaded(last, w, p) ==
    LoadedWith(last, w, p, Rebuild(w.pilots, w.flights, w.videos))

\* load() resumed up to the stop or the end that run describes
LoadTo(run, name) ==
    /\ loadPc' = run.pc
    /\ IF run.pc <= Len(LoadSteps)
       THEN /\ SetWorld(run.world)
            /\ log' = <<>>
            /\ UNCHANGED <<pilot, currentTime, startTime, stopTime, clockRange>>
       ELSE /\ Loaded(None, run.world, IF name # None THEN name ELSE pilot)
            /\ log' = IF name # None THEN <<"Pilot">> ELSE <<>>

\* The file load() waits for arrives: it is created, load() runs on to
\* the next file it must wait for or, after the last file, through
\* Pilot.change(first named pilot) and loaded(null)
LoadStep ==
    /\ loadPc \in 1..Len(LoadSteps)
    /\ LoadTo(LoadRun(World, loadPc),
              FirstNamed(ObjectKeys(LoadRun(World, loadPc).world.pilots)))
    /\ UNCHANGED <<createVars, originalRate, ticker, element, multiplier, shouldAnimate,
                   currentFlight, currentVideo, destroyed>>

\* A flight log dropped on the window: Flight.load(name).then(loaded)
Drop(f) ==
    /\ objPilot[f] = None
    /\ f \notin destroyed
    /\ Loaded(f, Create(f, World), pilot)
    /\ log' = <<"Pilot">>
    /\ UNCHANGED <<createVars, originalRate, ticker, element, multiplier, shouldAnimate,
                   currentFlight, currentVideo, loadPc, destroyed>>

\* A video file dropped on the window: Video.load({filename, pilot:
\* state.pilot.name, timestamp: clock.currentTime}).then(loaded), taken
\* when "loadedmetadata" has given the duration
DropVideo(v) ==
    /\ objPilot[v] = None
    /\ v \notin destroyed
    /\ pilot = VideoData[v].pilot
    /\ currentTime = VideoData[v].timestamp
    /\ Loaded(v, Create(v, World), pilot)
    /\ log' = <<"Pilot">>
    /\ UNCHANGED <<createVars, originalRate, ticker, element, multiplier, shouldAnimate,
                   currentFlight, currentVideo, loadPc, destroyed>>

(* ---------------------------------------------------------------------- *)
(* The clock and the other events                                         *)
(* ---------------------------------------------------------------------- *)
\* Clock.tick with ClockRange.CLAMPED
Clamp(t, range, startT, stopT) ==
    IF range # "CLAMPED" THEN t
    ELSE IF t < startT THEN startT
    ELSE IF t > stopT THEN stopT
    ELSE t

\* A natural tick: the clock advances by step = |multiplier| * dt in the
\* direction of the multiplier while animating, then raises onTick
Tick(step) ==
    LET moved == IF shouldAnimate /\ multiplier # 0
                 THEN Clamp(currentTime + Direction(multiplier) * step,
                            clockRange, startTime, stopTime)
                 ELSE currentTime
    IN  /\ moved = currentTime \/ moved \in MinTime..MaxTime
        /\ currentTime' = moved
        /\ SetPlayback(RaiseEvent(flights, videos, pilot, moved, Playback(<<>>)))
        /\ UNCHANGED <<createVars, pilots, next, prev, flights, videos, intervals, pilot,
                       objInterval, objPilot, startTime, stopTime, shouldAnimate,
                       clockRange, loadPc, destroyed>>

\* mousemove: raiseEvent without moving the clock
MouseMove ==
    /\ SetPlayback(RaiseEvent(flights, videos, pilot, currentTime, Playback(<<>>)))
    /\ UNCHANGED <<createVars, pilots, next, prev, flights, videos, intervals, pilot,
                   objInterval, objPilot, currentTime, startTime, stopTime,
                   shouldAnimate, clockRange, loadPc, destroyed>>

\* Spacebar: pause/play, then raiseEvent
Space ==
    /\ shouldAnimate' = ~shouldAnimate
    /\ SetPlayback(RaiseEvent(flights, videos, pilot, currentTime,
                          [Playback(<<>>) EXCEPT !.animate = ~shouldAnimate]))
    /\ UNCHANGED <<createVars, pilots, next, prev, flights, videos, intervals, pilot,
                   objInterval, objPilot, currentTime, startTime, stopTime,
                   clockRange, loadPc, destroyed>>

\* The browser plays the <video> of v until its position has moved on by
\* one second of media (which takes one second at playback rate 1 and ten
\* at playback rate 0.1), up to the end of the media
MediaAdvance(v) ==
    /\ ~VideoData[v].image
    /\ ~element[v].paused
    /\ element[v].currentTime + 10 <= 10 * VideoDuration(v)
    /\ element' = [element EXCEPT ![v].currentTime = @ + 10]
    /\ log' = <<>>
    /\ UNCHANGED <<createVars, pilots, next, prev, flights, videos, intervals, pilot,
                   objInterval, objPilot, originalRate, ticker, currentTime,
                   startTime, stopTime, multiplier, shouldAnimate, clockRange,
                   currentFlight, currentVideo, loadPc, destroyed>>

\* The rates the animation widget is taken to set
WidgetRates == {-1, 1}

\* The animation widget writes clock.multiplier
SetMultiplier(m) ==
    /\ m # multiplier
    /\ multiplier' = m
    /\ log' = <<>>
    /\ UNCHANGED <<createVars, pilots, next, prev, flights, videos, intervals, pilot,
                   objInterval, objPilot, originalRate, ticker, element,
                   currentTime, startTime, stopTime, shouldAnimate, clockRange,
                   currentFlight, currentVideo, loadPc, destroyed>>

\* PageUp / PageDown: Pilot.change(prev / next), then raiseEvent
PageKey(up) ==
    LET to == IF up THEN prev[pilot] ELSE next[pilot]
    IN  /\ pilot' = to
        /\ SetPlayback(RaiseEvent(flights, videos, to, currentTime,
                               Playback(<<"Pilot">>)))
        /\ UNCHANGED <<createVars, pilots, next, prev, flights, videos, intervals,
                       objInterval, objPilot, currentTime, startTime, stopTime,
                       shouldAnimate, clockRange, loadPc, destroyed>>

\* Delete: the current video, else the current flight, is destroyed
Delete ==
    /\ currentVideo # None \/ currentFlight # None
    /\ LET obj == IF currentVideo # None THEN currentVideo ELSE currentFlight
           r == IF currentVideo # None
                THEN VideoStop(obj, ChangeVideo(None, Playback(<<"delete">>)))
                ELSE ChangeFlight(None, Playback(<<"delete">>))
       IN  /\ SetPlayback(r)
           /\ SetWorld(Destroy(obj, World))
           /\ destroyed' = destroyed \cup {obj}
    /\ UNCHANGED <<createVars, pilot, currentTime, startTime, stopTime, shouldAnimate,
                   clockRange, loadPc>>

(* ---------------------------------------------------------------------- *)
(* Flight.create: the tracker                                             *)
(* ---------------------------------------------------------------------- *)
TRACKER_WINDOW == 128

\* Cesium.Cartesian3
Cartesian3(x, y, z) == [x |-> x, y |-> y, z |-> z]
CartesianAdd(left, right) ==
    Cartesian3(left.x + right.x, left.y + right.y, left.z + right.z)
CartesianSubtract(left, right) ==
    Cartesian3(left.x - right.x, left.y - right.y, left.z - right.z)

\* Cartesian3.divideByScalar: each component is the quotient
\* <<dividend, divisor>>, kept unreduced
DivideByScalar(cartesian, scalar) ==
    Cartesian3(<<cartesian.x, scalar>>, <<cartesian.y, scalar>>,
               <<cartesian.z, scalar>>)

\* The lengths, positions and shapes of the tracks Flight.create is given
FixCounts == {1, 3, TRACKER_WINDOW, TRACKER_WINDOW + 2}
FixPositions == {Cartesian3(2, 3, 5), Cartesian3(-7, 0, 1)}
FixOutliers == {0, 1, 100}
FixShapes == {"still", "ahead", "back", "faster"}

\* How far along the x axis the k-th fix of a track of the shape lies
Along(shape, k) ==
    CASE shape = "still" -> 0
      [] shape = "ahead" -> 3 * k
      [] shape = "back" -> -2 * k
      [] shape = "faster" -> k * k

\* igcData.fixes already converted (parseJulianDate, Cartesian3.fromDegrees):
\* count fixes a second apart, standing still at the position or moving
\* along the x axis, the outlier one further along
FixesOf(count, position, outlier, shape) ==
    [k \in 1..count |->
        [time |-> k,
         position |-> CartesianAdd(position,
                        Cartesian3(Along(shape, k) + IF k = outlier THEN 1 ELSE 0,
                                   0, 0))]]

\* The locals of Flight.create the tracker works on
Tracker == [stack |-> trackerStack, cartesian |-> trackerCartesian,
            positions |-> trackerPositions]

SetTracker(t) ==
    /\ trackerStack' = t.stack
    /\ trackerCartesian' = t.cartesian
    /\ trackerPositions' = t.positions

\* A shift that takes the newest sample off the queue, not the oldest
ShiftedFromEnd(drain, t) ==
    IF drain \/ Len(t.stack) >= TRACKER_WINDOW
    THEN [t EXCEPT !.stack = SubSeq(@, 1, Len(@) - 1),
                   !.cartesian = CartesianSubtract(@, t.stack[Len(t.stack)].position)]
    ELSE t

\* A shift that leaves the running sum as it is
ShiftedKeepingSum(drain, t) ==
    IF drain \/ Len(t.stack) >= TRACKER_WINDOW
    THEN [t EXCEPT !.stack = Tail(@)]
    ELSE t

\* updateTracker, lines 194-197
Shifted(drain, t) ==
    IF drain \/ Len(t.stack) >= TRACKER_WINDOW
    THEN [t EXCEPT !.stack = Tail(@),
                   !.cartesian = CartesianSubtract(@, Head(t.stack).position)]
    ELSE t

\* An average that is taken only while the queue is longer than half the
\* window, also when draining
AveragedWhileLong(drain, t) ==
    IF Len(t.stack) > TRACKER_WINDOW \div 2
    THEN [t EXCEPT !.positions =
            Append(@, [time |-> t.stack[Max(0, Len(t.stack)
                                               - TRACKER_WINDOW \div 2) + 1].time,
                       position |-> DivideByScalar(t.cartesian, Len(t.stack))])]
    ELSE t

\* An average taken over the whole window, however many samples the queue
\* holds
AveragedOverWindow(drain, t) ==
    IF (drain /\ Len(t.stack) > 0) \/ Len(t.stack) > TRACKER_WINDOW \div 2
    THEN [t EXCEPT !.positions =
            Append(@, [time |-> t.stack[Max(0, Len(t.stack)
                                               - TRACKER_WINDOW \div 2) + 1].time,
                       position |-> DivideByScalar(t.cartesian, TRACKER_WINDOW)])]
    ELSE t

\* updateTracker, lines 199-205
Averaged(drain, t) ==
    IF (drain /\ Len(t.stack) > 0) \/ Len(t.stack) > TRACKER_WINDOW \div 2
    THEN [t EXCEPT !.positions =
            Append(@, [time |-> t.stack[Max(0, Len(t.stack)
                                               - TRACKER_WINDOW \div 2) + 1].time,
                       position |-> DivideByScalar(t.cartesian, Len(t.stack))])]
    ELSE t

UpdateTracker(drain, t) == Averaged(drain, Shifted(drain, t))

\* One turn of the loop over igcData.fixes, lines 212-239
TrackerPush ==
    /\ fixIndex < Len(fixes)
    /\ fixIndex' = fixIndex + 1
    /\ SetTracker(UpdateTracker(FALSE,
            [Tracker EXCEPT !.stack = Append(@, fixes[fixIndex + 1]),
                            !.cartesian = CartesianAdd(@, fixes[fixIndex + 1].position)]))
    /\ UNCHANGED <<appVars, fixes, videoData, createdInterval>>

\* One turn of the loop that drains the tracker, lines 243-244
TrackerDrain ==
    /\ fixIndex = Len(fixes)
    /\ Len(trackerStack) > 0
    /\ SetTracker(UpdateTracker(TRUE, Tracker))
    /\ UNCHANGED <<appVars, fixes, fixIndex, videoData, createdInterval>>

(* ---------------------------------------------------------------------- *)
(* Flight.create and Video.create: the interval                           *)
(* ---------------------------------------------------------------------- *)
\* A value of metadata.json: a number, a string or absent
Number(n) == [type |-> "number", number |-> n, text |-> ""]
String(s) == [type |-> "string", number |-> 0, text |-> s]
Absent == [type |-> "undefined", number |-> 0, text |-> ""]

\* The value is truthy
Truthy(value) ==
    \/ value.type = "number" /\ value.number # 0
    \/ value.type = "string" /\ value.text # ""

\* The strings JulianDate.fromIso8601("1970-01-01T" + text + "Z") parses
\* among those given, with the seconds since midnight they stand for
TimeOfDay == "00:00:07" :> 7 @@ "00:00:00" :> 0

\* parseDuration: a number is seconds, a string is a time of day, anything
\* else (with a warning for what does not parse) is undefined
ParseDuration(timestamp) ==
    IF timestamp.type = "number" THEN timestamp
    ELSE IF ~Truthy(timestamp) THEN Absent
    ELSE IF timestamp.text \in DOMAIN TimeOfDay THEN Number(TimeOfDay[timestamp.text])
    ELSE Absent

\* Video.rate after lines 385-390
RateOf(data) ==
    IF Truthy(data.rate) /\ data.rate.type = "number" /\ data.rate.number > 0
    THEN data.rate.number
    ELSE 1

\* What create() has built: nothing yet, an interval, or a rejection
NotCreated == [state |-> "none", start |-> 0, stop |-> 0]
Pending == [state |-> "pending", start |-> 0, stop |-> 0]
Rejected == [state |-> "rejected", start |-> 0, stop |-> 0]
TimeInterval(start, stop) == [state |-> "created", start |-> start, stop |-> stop]

\* completeVideo: the interval of the video, lines 421-430
CompleteVideo(data, duration) ==
    TimeInterval(data.timestamp,
                 data.timestamp
                    + (IF Truthy(ParseDuration(duration))
                       THEN ParseDuration(duration).number
                       ELSE DEFAULT_DURATION) * RateOf(data))

\* No create() is running
NoVideoData == [pilot |-> AnyPilot, timestamp |-> 0, duration |-> Absent,
                element |-> 0, rate |-> Absent, image |-> FALSE]

\* The videoData records Video.create is given: element is element.duration
\* as "loadedmetadata" finds it, 0 when the element has none
VideoInputs ==
    [pilot : {AnyPilot, "a"},
     timestamp : {10, 30},
     duration : {Absent, Number(0), Number(3), Number(-5), String("00:00:07"),
                 String("00:00:00"), String("junk")},
     element : {0, 25},
     rate : {Absent, Number(0), Number(2), Number(-2), String("fast")},
     image : BOOLEAN]

\* The rest of Flight.create after the two loops: the interval from the
\* first fix to the last, lines 246-251
FlightInterval ==
    /\ Len(fixes) > 0
    /\ fixIndex = Len(fixes)
    /\ trackerStack = <<>>
    /\ createdInterval = NotCreated
    /\ createdInterval' = TimeInterval(fixes[1].time, fixes[Len(fixes)].time)
    /\ UNCHANGED <<appVars, trackerVars, videoData>>

\* The Video object the running Video.create works on
NewVideo == "video"

\* What a create() leaves alone: the clock, the resolver, load()
playerVars == <<pilot, originalRate, ticker, element, currentTime, startTime,
                stopTime, multiplier, shouldAnimate, clockRange, currentFlight,
                currentVideo, loadPc, log, destroyed>>

\* completeVideo(resolve, reject) with the pilots as w has them: the
\* interval and pilot.add(that), lines 420-445
Completed(w, iv) ==
    /\ createdInterval' = iv
    /\ SetWorld([w EXCEPT
          !.videos[videoData.pilot] =
              PilotAddIndex(@, [start |-> iv.start, stop |-> iv.stop,
                                data |-> NewVideo, orig |-> TRUE]),
          !.intervals =
              PilotAddGlobal(@, [start |-> iv.start, stop |-> iv.stop,
                                 data |-> NewVideo, orig |-> TRUE])])

\* Video.create, lines 381-495: Pilot.ensure, then completeVideo at once
\* for an image or a given duration, else the wait for "loadedmetadata"
VideoCreate ==
    /\ videoData # NoVideoData
    /\ createdInterval = NotCreated
    /\ IF videoData.image \/ Truthy(videoData.duration)
       THEN Completed(Ensured(World, videoData.pilot),
                      CompleteVideo(videoData, videoData.duration))
       ELSE /\ createdInterval' = Pending
            /\ SetWorld(Ensured(World, videoData.pilot))
    /\ UNCHANGED <<playerVars, trackerVars, videoData>>

\* "loadedmetadata", lines 500-509: completeVideo with the element's
\* duration, or the rejection when the element has none
LoadedMetadata ==
    /\ createdInterval = Pending
    /\ IF videoData.element # 0
       THEN Completed(World, CompleteVideo(videoData, Number(videoData.element)))
       ELSE /\ createdInterval' = Rejected
            /\ SetWorld(World)
    /\ UNCHANGED <<playerVars, trackerVars, videoData>>

\* The timeout of ten seconds, lines 496-499: the rejection
MetadataTimeout ==
    /\ createdInterval = Pending
    /\ createdInterval' = Rejected
    /\ UNCHANGED <<appVars, trackerVars, videoData>>

\* No Flight.create or Video.create is running
NoCreate ==
    /\ fixes = <<>>
    /\ fixIndex = 0
    /\ trackerStack = <<>>
    /\ trackerCartesian = Cartesian3(0, 0, 0)
    /\ trackerPositions = <<>>
    /\ videoData = NoVideoData
    /\ createdInterval = NotCreated

(* ---------------------------------------------------------------------- *)
(* The specification                                                      *)
(* ---------------------------------------------------------------------- *)
\* initialize() has run and load() is about to add its first file
Init ==
    /\ pilots = <<AnyPilot>>
    /\ next = [p \in PilotNames |-> IF p = AnyPilot THEN AnyPilot ELSE None]
    /\ prev = [p \in PilotNames |-> IF p = AnyPilot THEN AnyPilot ELSE None]
    /\ flights = [p \in PilotNames |-> <<>>]
    /\ videos = [p \in PilotNames |-> <<>>]
    /\ intervals = <<>>
    /\ pilot = AnyPilot
    /\ objInterval = [o \in Objects |-> Undefined]
    /\ objPilot = [o \in Objects |-> None]
    /\ originalRate = [o \in Videos |-> 0]
    /\ ticker = [o \in Videos |-> FALSE]
    /\ element = [o \in Videos |-> NewElement]
    /\ currentTime = Now
    /\ startTime = Now
    /\ stopTime = Now + DaySeconds
    /\ multiplier = DEFAULT_RATE
    /\ shouldAnimate = FALSE
    /\ clockRange = "UNBOUNDED"
    /\ currentFlight = None
    /\ currentVideo = None
    /\ loadPc = 1
    /\ log = <<>>
    /\ destroyed = {}
    /\ NoCreate

Next ==
    \/ LoadStep
    \/ \E f \in DropFiles \cup PilotDropFiles : Drop(f)
    \/ \E v \in DropVideos \cup DropImages \cup ShortImages \cup InsideImages :
          DropVideo(v)
    \/ \E v \in Videos : MediaAdvance(v)
    \/ \E step \in 1..MaxTickStep : Tick(step)
    \/ MouseMove
    \/ Space
    \/ \E m \in WidgetRates : SetMultiplier(m)
    \/ \E up \in BOOLEAN : PageKey(up)
    \/ \E left \in BOOLEAN, ctrl \in BOOLEAN : ArrowKey(left, ctrl)
    \/ Delete

\* The whole application
Spec == Init /\ [][Next]_vars

\* The state Space leaves Init in: the clock is animating
InitPlaying ==
    /\ pilots = <<AnyPilot>>
    /\ next = [p \in PilotNames |-> IF p = AnyPilot THEN AnyPilot ELSE None]
    /\ prev = [p \in PilotNames |-> IF p = AnyPilot THEN AnyPilot ELSE None]
    /\ flights = [p \in PilotNames |-> <<>>]
    /\ videos = [p \in PilotNames |-> <<>>]
    /\ intervals = <<>>
    /\ pilot = AnyPilot
    /\ objInterval = [o \in Objects |-> Undefined]
    /\ objPilot = [o \in Objects |-> None]
    /\ originalRate = [o \in Videos |-> 0]
    /\ ticker = [o \in Videos |-> FALSE]
    /\ element = [o \in Videos |-> NewElement]
    /\ currentTime = Now
    /\ startTime = Now
    /\ stopTime = Now + DaySeconds
    /\ multiplier = DEFAULT_RATE
    /\ shouldAnimate = TRUE
    /\ clockRange = "UNBOUNDED"
    /\ currentFlight = None
    /\ currentVideo = None
    /\ loadPc = 1
    /\ log = <<>>
    /\ destroyed = {}
    /\ NoCreate

\* The timeline: load(), the playing clock and the arrow keys
NextTimeline ==
    \/ LoadStep
    \/ \E step \in 1..MaxTickStep : Tick(step)
    \/ MouseMove
    \/ \E m \in WidgetRates : SetMultiplier(m)
    \/ \E left \in BOOLEAN, ctrl \in BOOLEAN : ArrowKey(left, ctrl)

SpecTimeline == InitPlaying /\ [][NextTimeline]_vars

\* The resolver: load(), drops, the playing clock, the pilot keys, Delete
\* and the Ctrl+arrow keys
NextResolver ==
    \/ LoadStep
    \/ \E f \in DropFiles : Drop(f)
    \/ \E step \in 1..MaxTickStep : Tick(step)
    \/ MouseMove
    \/ \E up \in BOOLEAN : PageKey(up)
    \/ \E left \in BOOLEAN : ArrowKey(left, TRUE)
    \/ Delete

SpecResolver == InitPlaying /\ [][NextResolver]_vars

\* The pilots: flight logs of several pilots dropped on the window (each
\* drop runs Pilot.ensure) and the pilot keys
NextPilots ==
    \/ \E f \in PilotDropFiles : Drop(f)
    \/ \E up \in BOOLEAN : PageKey(up)

SpecPilots == InitPlaying /\ [][NextPilots]_vars

\* The media: load(), a dropped video, the clock playing and paused, the
\* rate and the browser's playback of the <video> elements
NextMedia ==
    \/ LoadStep
    \/ \E v \in DropVideos : DropVideo(v)
    \/ \E step \in 1..MaxTickStep : Tick(step)
    \/ MouseMove
    \/ Space
    \/ \E m \in WidgetRates : SetMultiplier(m)
    \/ \E v \in Videos : MediaAdvance(v)

SpecMedia == InitPlaying /\ [][NextMedia]_vars

\* The snap seeks: load(), a photo dropped inside a flight, the playing
\* clock, the rate and the Ctrl+arrow keys
NextSnap ==
    \/ LoadStep
    \/ \E v \in DropImages : DropVideo(v)
    \/ \E step \in 1..MaxTickStep : Tick(step)
    \/ \E m \in WidgetRates : SetMultiplier(m)
    \/ \E left \in BOOLEAN : ArrowKey(left, TRUE)

SpecSnap == InitPlaying /\ [][NextSnap]_vars

\* The seeks around a short photo: load(), a photo of one second dropped
\* before the first flight, the playing clock, the rate, the Ctrl+arrow
\* keys and the plain Left key
NextSeek ==
    \/ LoadStep
    \/ \E v \in ShortImages : DropVideo(v)
    \/ \E step \in 1..MaxTickStep : Tick(step)
    \/ \E m \in WidgetRates : SetMultiplier(m)
    \/ \E left \in BOOLEAN : ArrowKey(left, TRUE)
    \/ ArrowKey(TRUE, FALSE)

SpecSeek == InitPlaying /\ [][NextSeek]_vars

\* The per-pilot indexes: load(), a flight log and a photo dropped over
\* what their pilot already holds, the playing clock, the Ctrl+arrow keys,
\* the pilot keys and Delete
\* The timeline with a single-fix flight log dropped on the window
NextBounds ==
    \/ LoadStep
    \/ \E f \in SingleFixFiles : Drop(f)
    \/ \E step \in 1..MaxTickStep : Tick(step)
    \/ \E left \in BOOLEAN, ctrl \in BOOLEAN : ArrowKey(left, ctrl)

SpecBounds == InitPlaying /\ [][NextBounds]_vars

NextIndex ==
    \/ LoadStep
    \/ \E f \in DropFiles : Drop(f)
    \/ \E v \in InsideImages : DropVideo(v)
    \/ \E step \in 1..MaxTickStep : Tick(step)
    \/ \E left \in BOOLEAN : ArrowKey(left, TRUE)
    \/ \E up \in BOOLEAN : PageKey(up)
    \/ Delete

SpecIndex == InitPlaying /\ [][NextIndex]_vars

\* The application as initialize() leaves it
Constructed ==
    /\ pilots = <<AnyPilot>>
    /\ next = [p \in PilotNames |-> IF p = AnyPilot THEN AnyPilot ELSE None]
    /\ prev = [p \in PilotNames |-> IF p = AnyPilot THEN AnyPilot ELSE None]
    /\ flights = [p \in PilotNames |-> <<>>]
    /\ videos = [p \in PilotNames |-> <<>>]
    /\ intervals = <<>>
    /\ pilot = AnyPilot
    /\ objInterval = [o \in Objects |-> Undefined]
    /\ objPilot = [o \in Objects |-> None]
    /\ originalRate = [o \in Videos |-> 0]
    /\ ticker = [o \in Videos |-> FALSE]
    /\ element = [o \in Videos |-> NewElement]
    /\ currentTime = Now
    /\ startTime = Now
    /\ stopTime = Now + DaySeconds
    /\ multiplier = DEFAULT_RATE
    /\ shouldAnimate = FALSE
    /\ clockRange = "UNBOUNDED"
    /\ currentFlight = None
    /\ currentVideo = None
    /\ loadPc = 1
    /\ log = <<>>
    /\ destroyed = {}

\* Flight.create has been called on a parsed track and is about to enter
\* its loop over the fixes
TrackGiven ==
    /\ \E count \in FixCounts, position \in FixPositions,
          outlier \in FixOutliers, shape \in FixShapes :
            fixes = FixesOf(count, position, outlier, shape)
    /\ fixIndex = 0
    /\ trackerStack = <<>>
    /\ trackerCartesian = Cartesian3(0, 0, 0)
    /\ trackerPositions = <<>>
    /\ videoData = NoVideoData
    /\ createdInterval = NotCreated

InitTracker == Constructed /\ TrackGiven

\* Video.create is about to be called on a videoData
VideoGiven ==
    /\ fixes = <<>>
    /\ fixIndex = 0
    /\ trackerStack = <<>>
    /\ trackerCartesian = Cartesian3(0, 0, 0)
    /\ trackerPositions = <<>>
    /\ videoData \in VideoInputs
    /\ createdInterval = NotCreated

InitCreate == Constructed /\ (TrackGiven \/ VideoGiven)

\* The tracker: the two loops of Flight.create over one track
NextTracker ==
    \/ TrackerPush
    \/ TrackerDrain

SpecTracker == InitTracker /\ [][NextTracker]_vars

\* The two loops are synchronous code of Flight.create: once entered they
\* run on, turn after turn, until their conditions fail
SpecTrackerRuns == SpecTracker /\ WF_vars(NextTracker)

\* A create(): Flight.create on one track or Video.create on one videoData
NextCreate ==
    \/ TrackerPush
    \/ TrackerDrain
    \/ FlightInterval
    \/ VideoCreate
    \/ LoadedMetadata
    \/ MetadataTimeout

SpecCreate == InitCreate /\ [][NextCreate]_vars

(* ---------------------------------------------------------------------- *)
(* Reference definitions for the properties                               *)
(* ---------------------------------------------------------------------- *)
\* The positions of coll whose interval holds t, start included, stop
\* excluded
Holding(coll, t) ==
    {i \in 1..Len(coll) : coll[i].start <= t /\ t < coll[i].stop}

\* The payload of the interval of coll that holds t, None when none does
PayloadAt(coll, t) ==
    IF Holding(coll, t) = {} THEN None
    ELSE coll[CHOOSE i \in Holding(coll, t) : TRUE].data

\* The video the resolver is to choose for pilot p at t
VideoFor(vd, p, t) ==
    IF PayloadAt(vd[p], t) # None THEN PayloadAt(vd[p], t)
    ELSE IF p # AnyPilot THEN PayloadAt(vd[AnyPilot], t)
    ELSE None

\* How often line occurs in lines
Count(line, lines) == Cardinality({i \in 1..Len(lines) : lines[i] = line})

\* t is in no interval of coll and more than the epsilon of one second away
\* from every start and stop
InGap(coll, t) ==
    \A i \in 1..Len(coll) :
        /\ ~(coll[i].start <= t /\ t < coll[i].stop)
        /\ Abs(t - coll[i].start) > 1
        /\ Abs(t - coll[i].stop) > 1

Least(S) == CHOOSE x \in S : \A y \in S : x <= y
Greatest(S) == CHOOSE x \in S : \A y \in S : x >= y

\* The start of the first interval after t, else bound
NextStartOr(coll, t, bound) ==
    LET starts == {coll[i].start : i \in {j \in 1..Len(coll) : coll[j].start > t}}
    IN  IF starts = {} THEN bound ELSE Least(starts)

\* The stop of the last interval before t, else bound
PrevStopOr(coll, t, bound) ==
    LET stops == {coll[i].stop : i \in {j \in 1..Len(coll) : coll[j].stop <= t}}
    IN  IF stops = {} THEN bound ELSE Greatest(stops)

\* [start, stop, payload] of every interval of coll
Entries(coll) ==
    [i \in 1..Len(coll) |-> <<coll[i].start, coll[i].stop, coll[i].data>>]

\* A step of a handler that leaves the indices and the active pilot alone
FixedStep ==
    /\ flights' = flights
    /\ videos' = videos
    /\ pilot' = pilot
    /\ destroyed' = destroyed
    /\ loadPc' = loadPc

\* A step of a handler that ends by raising onTick: every event of
\* NextResolver but the arrival of a file and Delete
Raised ==
    /\ loadPc' = loadPc
    /\ objPilot' = objPilot
    /\ destroyed' = destroyed

(* ---------------------------------------------------------------------- *)
(* C1                                                                     *)
(* ---------------------------------------------------------------------- *)
\* C1: an arrow-key seek with Ctrl never changes the clock's start or stop
\* bound, in any reachable state, load() still running included.
SnapNeverExpands ==
    [][\A left \in BOOLEAN :
          ArrowKey(left, TRUE) => startTime' = startTime /\ stopTime' = stopTime]_vars

(* ---------------------------------------------------------------------- *)
(* C2                                                                     *)
(* ---------------------------------------------------------------------- *)
\* C2: state.intervals holds no interval whose payload is a destroyed
\* object, and it is the merge of the per-pilot indices as they are now.
GlobalIsMerge ==
    /\ \A i \in 1..Len(intervals) : intervals[i].data \notin destroyed
    /\ Entries(intervals) = Entries(Rebuild(pilots, flights, videos))

(* ---------------------------------------------------------------------- *)
(* C3                                                                     *)
(* ---------------------------------------------------------------------- *)
\* C3: on a tick with the indices and the active pilot fixed, changeFlight
\* (changeVideo) is called once when the flight (video) found at the new
\* time differs from the active one and not at all otherwise; in
\* particular not when the clock stays in the same interval or gap.
ChangeOncePerTransition ==
    [][FixedStep =>
          /\ Count("Flight", log') =
                 IF PayloadAt(flights[pilot], currentTime') # currentFlight
                 THEN 1 ELSE 0
          /\ Count("Video", log') =
                 IF VideoFor(videos, pilot, currentTime') # currentVideo
                 THEN 1 ELSE 0
          /\ (/\ currentFlight = PayloadAt(flights[pilot], currentTime)
              /\ PayloadAt(flights[pilot], currentTime')
                     = PayloadAt(flights[pilot], currentTime))
             => Count("Flight", log') = 0
          /\ (/\ currentVideo = VideoFor(videos, pilot, currentTime)
              /\ VideoFor(videos, pilot, currentTime')
                     = VideoFor(videos, pilot, currentTime))
             => Count("Video", log') = 0]_vars

\* A tick has taken the clock into a flight: one call of changeFlight
ChangeOncePerTransitionWitness ==
    /\ log = <<"Flight">>
    /\ currentFlight # None
    /\ currentFlight = PayloadAt(flights[pilot], currentTime)

(* ---------------------------------------------------------------------- *)
(* C4                                                                     *)
(* ---------------------------------------------------------------------- *)
\* C4: after every tick the active flight is the payload of the active
\* pilot's flight interval that holds the clock's time, start included and
\* stop excluded, and none when there is no such interval.
ActiveFlightIsResolved ==
    [][Raised => currentFlight' = PayloadAt(flights'[pilot'], currentTime')]_vars

\* A tick has taken the clock from inside a flight onto its stop: the
\* flight is no longer active
ActiveFlightIsResolvedWitness ==
    /\ log = <<"Flight">>
    /\ currentFlight = None
    /\ \E i \in 1..Len(flights[pilot]) : flights[pilot][i].stop = currentTime

(* ---------------------------------------------------------------------- *)
(* C5                                                                     *)
(* ---------------------------------------------------------------------- *)
\* C5: after every tick the active video is the active pilot's own video
\* holding the clock's time; if there is none and the active pilot is not
\* the any pilot, the any pilot's video holding it; else none.
ActiveVideoIsResolved ==
    [][Raised => currentVideo' = VideoFor(videos', pilot', currentTime')]_vars

\* The active pilot's own video is active at an instant that a video of
\* the any pilot holds too
ActiveVideoIsResolvedWitness ==
    /\ pilot # AnyPilot
    /\ currentVideo # None
    /\ currentVideo = PayloadAt(videos[pilot], currentTime)
    /\ PayloadAt(videos[AnyPilot], currentTime) # None

(* ---------------------------------------------------------------------- *)
(* C6                                                                     *)
(* ---------------------------------------------------------------------- *)
\* C6: a Ctrl seek from a gap commits, forward, the start of the next
\* interval of state.intervals or the stop bound if there is none and,
\* backward, the stop of the previous interval or the start bound if there
\* is none.
SnapFromGap ==
    [][\A left \in BOOLEAN :
          (ArrowKey(left, TRUE) /\ InGap(intervals, currentTime))
          => currentTime' = IF left
                            THEN PrevStopOr(intervals, currentTime, startTime)
                            ELSE NextStartOr(intervals, currentTime, stopTime)]_vars

\* Ctrl+Right has taken the clock to the start of an interval that is not
\* the first
SnapFromGapWitness ==
    /\ Len(log) > 0
    /\ Head(log) = "Jumping to next start"
    /\ \E i \in 2..Len(intervals) : intervals[i].start = currentTime

(* ---------------------------------------------------------------------- *)
(* C7                                                                     *)
(* ---------------------------------------------------------------------- *)
\* C7: a Ctrl seek from inside an interval of state.intervals, more than
\* the epsilon after its start when seeking backward, commits the start of
\* that interval backward and its stop forward.
SnapInsideInterval ==
    [][\A left \in BOOLEAN : \A i \in 1..Len(intervals) :
          (/\ ArrowKey(left, TRUE)
           /\ intervals[i].start <= currentTime
           /\ currentTime < intervals[i].stop
           /\ left => currentTime - intervals[i].start > 1)
          => currentTime' = IF left THEN intervals[i].start
                            ELSE intervals[i].stop]_vars

\* Ctrl+Right has taken the clock to the stop of an interval
SnapInsideIntervalWitness ==
    /\ Len(log) > 0
    /\ Head(log) = "Jumping to stop"
    /\ \E i \in 1..Len(intervals) : intervals[i].stop = currentTime

(* ---------------------------------------------------------------------- *)
(* C8                                                                     *)
(* ---------------------------------------------------------------------- *)
\* C8: Ctrl+Left at the start of the first interval commits the clock's
\* start bound; Ctrl+Right at the stop of the last interval commits the
\* clock's stop bound and leaves that bound as it is.
SnapAtEnds ==
    [][/\ (ArrowKey(TRUE, TRUE) /\ currentTime = intervals[1].start)
          => currentTime' = startTime
       /\ (ArrowKey(FALSE, TRUE) /\ currentTime = intervals[Len(intervals)].stop)
          => currentTime' = stopTime /\ stopTime' = stopTime]_vars

\* Ctrl+Left at the start of the first interval has taken the clock to a
\* start bound that lies before that interval
SnapAtEndsWitness ==
    /\ Len(log) >= 2
    /\ SubSeq(log, 1, 2) = <<"Jump assuming before", "Jumping to beginning">>
    /\ currentTime = startTime
    /\ startTime < intervals[1].start

(* ---------------------------------------------------------------------- *)
(* C9                                                                     *)
(* ---------------------------------------------------------------------- *)
\* C9: a plain seek commits the current time plus (Right) or minus (Left)
\* JUMP_SECONDS times the absolute clock rate, wherever the clock is and
\* wherever the step lands.
PlainStepIsExact ==
    [][\A left \in BOOLEAN :
          ArrowKey(left, FALSE)
          => currentTime' = currentTime + (IF left THEN -1 ELSE 1)
                                          * JUMP_SECONDS * Abs(multiplier)]_vars

\* With a negative clock rate, Right has taken the clock forward out of a
\* flight
PlainStepIsExactWitness ==
    /\ multiplier < 0
    /\ log = <<"Jumping forwards", "Flight">>
    /\ currentFlight = None
    /\ \E i \in 1..Len(intervals) : intervals[i].stop <= currentTime

(* ---------------------------------------------------------------------- *)
(* C10                                                                    *)
(* ---------------------------------------------------------------------- *)
\* C10: a plain seek whose target lies beyond the bound in its direction
\* sets that bound to the target; no seek raises the start bound, lowers
\* the stop bound or changes the bound opposite to its direction.
SeekOnlyWidens ==
    [][\A left \in BOOLEAN, ctrl \in BOOLEAN :
          ArrowKey(left, ctrl)
          => /\ startTime' <= startTime
             /\ stopTime' >= stopTime
             /\ left => stopTime' = stopTime
             /\ ~left => startTime' = startTime
             /\ (~ctrl /\ left /\ currentTime' < startTime)
                => startTime' = currentTime'
             /\ (~ctrl /\ ~left /\ currentTime' > stopTime)
                => stopTime' = currentTime']_vars

\* After loaded(), Left has taken the clock before the start bound, which
\* is now the target
SeekOnlyWidensWitness ==
    /\ clockRange = "CLAMPED"
    /\ Len(log) >= 2
    /\ SubSeq(log, 1, 2) = <<"Jumping backwards", "Expanding beginning of timeline">>
    /\ startTime = currentTime

(* ---------------------------------------------------------------------- *)
(* C11                                                                    *)
(* ---------------------------------------------------------------------- *)
\* C11: when an arrow-key seek completes, the clock's time is the computed
\* target and the active flight and video are already those the resolver
\* finds at that time for the active pilot.
SeekResolvesAtTarget ==
    [][\A left \in BOOLEAN, ctrl \in BOOLEAN :
          ArrowKey(left, ctrl)
          => /\ currentTime' = SeekTarget(intervals, currentTime, left, ctrl,
                                          multiplier, startTime, stopTime).jump
             /\ currentFlight' = PayloadAt(flights[pilot], currentTime')
             /\ currentVideo' = VideoFor(videos, pilot, currentTime')]_vars

\* Ctrl+Right from a gap has taken the clock to the start of a video, and
\* that video is already the active one
SeekResolvesAtTargetWitness ==
    /\ Len(log) >= 2
    /\ Head(log) = "Jumping to next start"
    /\ log[Len(log)] = "Video"
    /\ currentVideo # None
    /\ objInterval[currentVideo].start = currentTime

(* ---------------------------------------------------------------------- *)
(* C12                                                                    *)
(* ---------------------------------------------------------------------- *)
\* The starts and stops of the intervals of the flights and videos that
\* exist: created and not destroyed
LiveBoundaries ==
    UNION {{objInterval[o].start, objInterval[o].stop} :
              o \in {x \in Objects : Defined(objInterval[x]) /\ x \notin destroyed}}

\* C12: a Ctrl seek commits the start or stop of the interval of a flight
\* or video that exists, or the clock's start or stop bound, also after
\* flights and videos were deleted.
SnapLandsOnExisting ==
    [][\A left \in BOOLEAN :
          ArrowKey(left, TRUE)
          => currentTime' \in LiveBoundaries \cup {startTime, stopTime}]_vars

(* ---------------------------------------------------------------------- *)
(* C13                                                                    *)
(* ---------------------------------------------------------------------- *)
\* [start, stop) of iv intersects [start, stop) of an interval of coll
Overlaps(coll, iv) ==
    \E i \in 1..Len(coll) : coll[i].start < iv.stop /\ iv.start < coll[i].stop

\* C13: Pilot.add of a flight whose span intersects an interval already in
\* the pilot's flight index is reported with a warning and leaves that
\* index as it was.
OverlapIsIgnored ==
    [][\A f \in DropFiles :
          (Drop(f) /\ Overlaps(flights[OwnerName(f)], NewInterval(f)))
          => /\ flights'[OwnerName(f)] = flights[OwnerName(f)]
             /\ \E i \in 1..Len(log') : log'[i] = "ignoring overlapping timespan"]_vars

(* ---------------------------------------------------------------------- *)
(* C14                                                                    *)
(* ---------------------------------------------------------------------- *)
\* The per-pilot index Pilot.add(obj) / Pilot.remove(obj) works on
IndexOfKind(obj) ==
    IF obj \in Flights THEN flights[OwnerName(obj)] ELSE videos[OwnerName(obj)]

\* The entries of coll whose payload is not obj
OthersIn(coll, obj) ==
    Entries(SelectSeq(coll, LAMBDA iv : iv.data # obj))

\* obj has no entry in coll
AbsentFrom(coll, obj) == \A i \in 1..Len(coll) : coll[i].data # obj

\* Removing a payload that the index does not hold leaves the index as it is
RemoveAbsentIsNoop ==
    \A obj \in Objects :
        AbsentFrom(IndexOfKind(obj), obj)
        => PilotRemoveIndex(IndexOfKind(obj), NewInterval(obj)) = IndexOfKind(obj)

\* Pilot.add(obj) twice leaves the index as Pilot.add(obj) once
AddTwiceIsOnce ==
    \A obj \in Objects :
        PilotAddIndex(PilotAddIndex(IndexOfKind(obj), NewInterval(obj)),
                      NewInterval(obj))
        = PilotAddIndex(IndexOfKind(obj), NewInterval(obj))

\* The removal step inside Pilot.add(obj) leaves the other payloads'
\* intervals as they are
RemovalKeepsOthers ==
    \A obj \in Objects :
        OthersIn(RemoveInterval(IndexOfKind(obj), NewInterval(obj)), obj)
        = OthersIn(IndexOfKind(obj), obj)

\* C14: in every reachable state and for every flight and video: removing
\* it from its pilot's index when the index does not hold it is a no-op,
\* adding it twice is the same as adding it once, and the removal step of
\* add changes no other payload's interval.
RemoveAndAddByPayload ==
    /\ RemoveAbsentIsNoop
    /\ AddTwiceIsOnce
    /\ RemovalKeepsOthers

(* ---------------------------------------------------------------------- *)
(* C15                                                                    *)
(* ---------------------------------------------------------------------- *)
\* name is a key of state.pilots
IsPilot(name) == \E i \in 1..Len(pilots) : pilots[i] = name

\* Every pilot is its next's prev and its prev's next
RingIsLinked ==
    \A i \in 1..Len(pilots) :
        /\ next[pilots[i]] # None
        /\ prev[pilots[i]] # None
        /\ prev[next[pilots[i]]] = pilots[i]
        /\ next[prev[pilots[i]]] = pilots[i]

\* Pilot.ensure of a name that state.pilots holds gives that pilot and
\* leaves the pilots and their links as they are
EnsureExistingKeepsRing ==
    \A f \in PilotDropFiles :
        (Drop(f) /\ IsPilot(OwnerName(f)))
        => /\ objPilot'[f] = OwnerName(f)
           /\ pilots' = pilots
           /\ next' = next
           /\ prev' = prev

\* C15: after any sequence of Pilot.ensure calls every pilot p has
\* p.next.prev = p and p.prev.next = p, and Pilot.ensure with an existing
\* name returns the existing pilot and leaves the ring unchanged.
PilotRing == []RingIsLinked /\ [][EnsureExistingKeepsRing]_vars

\* Four pilots have been created after the any pilot, and a flight of a
\* pilot that existed already has been dropped
PilotRingWitness ==
    /\ Len(pilots) = 5
    /\ objPilot["F3"] = "b"
    /\ objPilot["F6"] = "b"
    /\ next[pilots[5]] = pilots[1]

(* ---------------------------------------------------------------------- *)
(* C16                                                                    *)
(* ---------------------------------------------------------------------- *)
Sign(x) == IF x < 0 THEN -1 ELSE IF x > 0 THEN 1 ELSE 0

\* The clock rate at the moment the next video starts: the rate as it is
\* or, when a video is active, as the stop of that video leaves it
RateAtStart ==
    IF currentVideo = None THEN multiplier
    ELSE Abs(originalRate[currentVideo]) * Sign(multiplier)

\* A step in which a video or image has become the active one
BecomesActive == currentVideo' # None /\ currentVideo' # currentVideo

\* C16: when a video becomes active the clock rate of that moment is
\* recorded as its original rate and the clock rate becomes the video's
\* rate times the sign of the original rate.
StartKeepsDirection ==
    [][BecomesActive
       => /\ originalRate'[currentVideo'] = RateAtStart
          /\ multiplier' = VideoRate(currentVideo') * Sign(RateAtStart)]_vars

\* A clock running backwards at rate -1 has entered a video of rate 10
StartKeepsDirectionWitness ==
    /\ currentVideo = "V1"
    /\ originalRate["V1"] = -1
    /\ multiplier = -10
    /\ Len(log) > 0
    /\ log[Len(log)] = "Video"

(* ---------------------------------------------------------------------- *)
(* C17                                                                    *)
(* ---------------------------------------------------------------------- *)
\* A step in which the active video has stopped and none has started
BecomesInactive == currentVideo # None /\ currentVideo' = None

\* C17: when a video becomes inactive the clock rate becomes the absolute
\* original rate times the sign of the clock rate of that moment, the
\* element is hidden and, if it is a <video>, paused, and its syncVideo
\* listener is removed; no step writes the position or the playback rate
\* of the element of a video that is not the active one.
StopRestoresRate ==
    [][/\ BecomesInactive
          => /\ multiplier' = Abs(originalRate[currentVideo]) * Sign(multiplier)
             /\ ~element'[currentVideo].visible
             /\ VideoData[currentVideo].image \/ element'[currentVideo].paused
             /\ ~ticker'[currentVideo]
       /\ \A v \in Videos :
             v # currentVideo'
             => /\ ~ticker'[v]
                /\ element'[v].currentTime = element[v].currentTime
                /\ element'[v].playbackRate = element[v].playbackRate]_vars

\* A video started at rate 50 has been left after the clock was turned
\* backwards: the clock runs at -50, the element is hidden and paused
StopRestoresRateWitness ==
    /\ currentVideo = None
    /\ originalRate["V1"] = 50
    /\ multiplier = -50
    /\ Len(log) > 0
    /\ log[Len(log)] = "Video"
    /\ element["V1"].paused
    /\ ~element["V1"].visible
    /\ element["V1"].playbackRate = 1

(* ---------------------------------------------------------------------- *)
(* C18                                                                    *)
(* ---------------------------------------------------------------------- *)
\* A handler of NextMedia that raises onTick
TickRaised ==
    \/ \E step \in 1..MaxTickStep : Tick(step)
    \/ MouseMove
    \/ Space

\* After the step a <video> is the active video
VideoPlaying == currentVideo' # None /\ ~VideoData[currentVideo'].image

\* C18: while a video is active, after every tick the playback rate of its
\* element is 0.1 when the clock rate is negative and 1 otherwise, whatever
\* the magnitude of the clock rate.
PlaybackRateIsFixed ==
    [][(TickRaised /\ VideoPlaying)
       => element'[currentVideo'].playbackRate
              = IF multiplier' < 0 THEN 1 ELSE 10]_vars

\* A tick with the clock running backwards at rate -10 inside a video: the
\* element plays forward at 0.1
PlaybackRateIsFixedWitness ==
    /\ currentVideo = "V1"
    /\ multiplier = -10
    /\ element["V1"].playbackRate = 1
    /\ ~element["V1"].paused
    /\ ticker["V1"]

(* ---------------------------------------------------------------------- *)
(* C19                                                                    *)
(* ---------------------------------------------------------------------- *)
\* The fixed tolerance of syncVideo, one second, in tenths
SyncEpsilon == 10

\* C19: on a tick of an active video the element's position is written if
\* and only if it is more than the fixed tolerance away from the elapsed
\* media time, it is then set to the elapsed time, and after the tick it is
\* within the tolerance of the elapsed time.
SyncWithinFixedEpsilon ==
    [][(TickRaised /\ VideoPlaying)
       => /\ (element'[currentVideo'].currentTime # element[currentVideo'].currentTime)
             <=> (Abs(element[currentVideo'].currentTime
                      - Elapsed(currentVideo', currentTime')) > SyncEpsilon)
          /\ (element'[currentVideo'].currentTime # element[currentVideo'].currentTime)
             => (element'[currentVideo'].currentTime
                    = Elapsed(currentVideo', currentTime'))
          /\ Abs(element'[currentVideo'].currentTime
                 - Elapsed(currentVideo', currentTime')) <= SyncEpsilon]_vars

(* ---------------------------------------------------------------------- *)
(* C20                                                                    *)
(* ---------------------------------------------------------------------- *)
\* Every fix of the track has the position of the first
ConstantTrack ==
    /\ Len(fixes) >= TRACKER_WINDOW
    /\ \A k \in 1..Len(fixes) : fixes[k].position = fixes[1].position

\* The quotient is the number
QuotientIs(quotient, number) == quotient[1] = number * quotient[2]

\* The averaged position is the Cartesian3 at
AverageIs(average, at) ==
    /\ QuotientIs(average.x, at.x)
    /\ QuotientIs(average.y, at.y)
    /\ QuotientIs(average.z, at.z)

\* C20: when every fix of a track of at least TRACKER_WINDOW fixes has the
\* same position, every sample added to trackerPositions, while the fixes
\* are read and while the tracker is drained, has that position: the
\* running sum divided by the length of the queue.
ConstantTrackIsKept ==
    ConstantTrack
        => \A s \in 1..Len(trackerPositions) :
              AverageIs(trackerPositions[s].position, fixes[1].position)

\* A constant track of more than TRACKER_WINDOW fixes has been read and the
\* tracker drained: samples were added in both loops
ConstantTrackIsKeptWitness ==
    /\ ConstantTrack
    /\ Len(fixes) > TRACKER_WINDOW
    /\ fixIndex = Len(fixes)
    /\ trackerStack = <<>>
    /\ Len(trackerPositions) > Len(fixes)

(* ---------------------------------------------------------------------- *)
(* C21                                                                    *)
(* ---------------------------------------------------------------------- *)
\* The x coordinates of the fixes strictly increase / strictly decrease
RisingTrack ==
    \A k \in 1..(Len(fixes) - 1) : fixes[k].position.x < fixes[k + 1].position.x
FallingTrack ==
    \A k \in 1..(Len(fixes) - 1) : fixes[k].position.x > fixes[k + 1].position.x

\* Quotients with positive divisors, compared
QuotientLeq(left, right) == left[1] * right[2] <= right[1] * left[2]

\* The x coordinates of the samples added to trackerPositions never
\* decrease / never increase in the order they were added
RisingAverages ==
    \A s \in 1..(Len(trackerPositions) - 1) :
        QuotientLeq(trackerPositions[s].position.x, trackerPositions[s + 1].position.x)
FallingAverages ==
    \A s \in 1..(Len(trackerPositions) - 1) :
        QuotientLeq(trackerPositions[s + 1].position.x, trackerPositions[s].position.x)

\* On a track of at least two fixes that moves one way, the averages move
\* that way
AveragesFollowTrack ==
    Len(fixes) > 1 => /\ RisingTrack => RisingAverages
                      /\ FallingTrack => FallingAverages

\* The turn of the reading loop added a sample once the queue had filled
AddedAfterWarmUp ==
    /\ TrackerPush
    /\ fixIndex' >= TRACKER_WINDOW
    /\ Len(trackerPositions') > Len(trackerPositions)

\* The sample added last carries the time of the fix lag fixes before the
\* one just read
LagIs(lag) ==
    trackerPositions'[Len(trackerPositions')].time = fixes[fixIndex' - lag].time

\* C21: on a track moving strictly one way along an axis the smoothed
\* positions move that way in the order they are emitted, and once the
\* queue has filled the smoothed sample emitted when a fix arrives carries
\* the time of the fix TRACKER_WINDOW / 2 fixes earlier.
SmoothedFollowsAndLags ==
    /\ []AveragesFollowTrack
    /\ [][AddedAfterWarmUp /\ (RisingTrack \/ FallingTrack)
          => LagIs(TRACKER_WINDOW \div 2)]_vars

\* What the reading loop does: the lag is one fix less
LagIsOneLess ==
    [][AddedAfterWarmUp => LagIs(TRACKER_WINDOW \div 2 - 1)]_vars

(* ---------------------------------------------------------------------- *)
(* C22                                                                    *)
(* ---------------------------------------------------------------------- *)
\* C22: every interval create() builds for a flight or for a video/image
\* has start <= stop, whatever the ordered fixes and whatever the duration
\* (zero, negative and unparsable ones included) and rate of the videoData.
IntervalsAreOrdered ==
    createdInterval.state = "created" => createdInterval.start <= createdInterval.stop

\* The same, leaving out the videoData whose duration is a negative number
OrderedButForNegative ==
    (createdInterval.state = "created"
        /\ ~(videoData.duration.type = "number" /\ videoData.duration.number < 0))
    => createdInterval.start <= createdInterval.stop

(* ---------------------------------------------------------------------- *)
(* C23                                                                    *)
(* ---------------------------------------------------------------------- *)
\* The pilots, their ring and every index are as initialize() left them
NothingHeld ==
    /\ pilots = <<AnyPilot>>
    /\ next = [p \in PilotNames |-> IF p = AnyPilot THEN AnyPilot ELSE None]
    /\ prev = [p \in PilotNames |-> IF p = AnyPilot THEN AnyPilot ELSE None]
    /\ flights = [p \in PilotNames |-> <<>>]
    /\ videos = [p \in PilotNames |-> <<>>]
    /\ intervals = <<>>

\* C23: when the load of a video fails (no duration becomes available and
\* create() rejects) the pilots, their ring, every pilot's indexes and the
\* global index are what they were before the load began.
FailedLoadHoldsNothing ==
    createdInterval = Rejected => NothingHeld

\* The indexes alone are what they were
FailedLoadKeepsIndexes ==
    createdInterval = Rejected
        => /\ flights = [p \in PilotNames |-> <<>>]
           /\ videos = [p \in PilotNames |-> <<>>]
           /\ intervals = <<>>

(* ---------------------------------------------------------------------- *)
(* C24                                                                    *)
(* ---------------------------------------------------------------------- *)
\* The pilot created after / before the i-th of n, around the ring
CreatedAfter(i) == pilots[(i % Len(pilots)) + 1]
CreatedBefore(i) == pilots[((i + Len(pilots) - 2) % Len(pilots)) + 1]

\* The pilot reached from name by following next / prev k times
RECURSIVE Following(_, _)
Following(name, k) == IF k = 0 THEN name ELSE Following(next[name], k - 1)
RECURSIVE Preceding(_, _)
Preceding(name, k) == IF k = 0 THEN name ELSE Preceding(prev[name], k - 1)

\* From every pilot, next and prev come back after exactly as many steps
\* as there are pilots, and not before
OneCycle ==
    \A i \in 1..Len(pilots) :
        /\ Following(pilots[i], Len(pilots)) = pilots[i]
        /\ Preceding(pilots[i], Len(pilots)) = pilots[i]
        /\ \A k \in 1..(Len(pilots) - 1) :
              /\ Following(pilots[i], k) # pilots[i]
              /\ Preceding(pilots[i], k) # pilots[i]

\* next leads from each pilot to the one created after it (from the last
\* to the first), prev to the one created before it
InCreationOrder ==
    \A i \in 1..Len(pilots) :
        /\ next[pilots[i]] = CreatedAfter(i)
        /\ prev[pilots[i]] = CreatedBefore(i)

\* C24: from any pilot, following next visits every pilot, the any-pilot
\* included, exactly once and in creation order, and is back at the start
\* after exactly as many steps as there are pilots; prev goes round the
\* same cycle the other way.
RingInCreationOrder == OneCycle /\ InCreationOrder

\* The same while no pilot's name is an array index
InCreationOrderByName ==
    (\A i \in 1..Len(pilots) : IsStringKey(pilots[i])) => InCreationOrder

(* ---------------------------------------------------------------------- *)
(* C25                                                                    *)
(* ---------------------------------------------------------------------- *)
\* The clock is in the i-th interval of state.intervals, within the
\* epsilon of one second of its start
AtStartOf(i) ==
    /\ intervals[i].start <= currentTime
    /\ currentTime < intervals[i].stop
    /\ currentTime - intervals[i].start <= 1

\* The interval before the i-th ends more than the epsilon before the clock
PrecedingIsApart(i) == currentTime - intervals[i - 1].stop > 1

\* C25: Ctrl+Left with the clock at the start of an interval (within the
\* epsilon) takes the position as just before that interval: it commits the
\* stop of the preceding interval, or the clock's start bound when there is
\* none, and so not that interval's own start.
SnapBackAtStart ==
    [][\A i \in 1..Len(intervals) :
          (ArrowKey(TRUE, TRUE) /\ AtStartOf(i))
          => currentTime' = IF i > 1 THEN intervals[i - 1].stop ELSE startTime]_vars

\* C25 as it holds: the stop of the preceding interval when that interval
\* ends more than the epsilon before the clock; when it ends within the
\* epsilon the position is taken as inside it and its start is committed
\* (the start bound, if it is the first interval and the clock is within
\* the epsilon of its start too); the start bound when no interval
\* precedes.
SnapBackAtStartOrWithin ==
    [][\A i \in 1..Len(intervals) :
          (ArrowKey(TRUE, TRUE) /\ AtStartOf(i))
          => currentTime' =
                IF i = 1 THEN startTime
                ELSE IF PrecedingIsApart(i) THEN intervals[i - 1].stop
                ELSE IF i = 2 /\ currentTime - intervals[1].start <= 1 THEN startTime
                ELSE intervals[i - 1].start]_vars

\* Ctrl+Left at the start of an interval that is not the first has taken
\* the clock to the stop of the interval before it, across a gap
SnapBackAtStartOrWithinWitness ==
    /\ Len(log) >= 2
    /\ SubSeq(log, 1, 2) = <<"Jump assuming before", "Jumping to prev stop">>
    /\ \E i \in 1..(Len(intervals) - 1) :
          /\ intervals[i].stop = currentTime
          /\ intervals[i + 1].start > currentTime + 1

\* ---------------------------------------------------------------------
\* C26: a snap-forward seek from a time inside an interval and within the
\* epsilon (one second, as at the start) before its stop is treated as
\* just after that interval: it commits the next interval's start, or the
\* clock's stop bound when there is no next interval.
BeforeStopOf(i) ==
    /\ intervals[i].start <= currentTime
    /\ currentTime < intervals[i].stop
    /\ intervals[i].stop - currentTime <= 1

SnapForwardAtStop ==
    [][\A i \in 1..Len(intervals) :
          (ArrowKey(FALSE, TRUE) /\ BeforeStopOf(i))
              => currentTime' = IF i < Len(intervals)
                                THEN intervals[i + 1].start
                                ELSE stopTime]_vars

\* what the code does there: it commits that interval's own stop
SnapForwardStopsAtStop ==
    [][\A i \in 1..Len(intervals) :
          (ArrowKey(FALSE, TRUE) /\ BeforeStopOf(i))
              => currentTime' = intervals[i].stop]_vars

\* ---------------------------------------------------------------------
\* C27: a snap seek from a gap, within the epsilon after the stop of the
\* preceding interval (backward) or before the start of the following
\* interval (forward), is handled as inside that interval: backward
\* commits its start, forward commits its stop.
BetweenIntervals ==
    \A i \in 1..Len(intervals) :
        ~(intervals[i].start <= currentTime /\ currentTime < intervals[i].stop)

AfterStopOf(i) ==
    /\ BetweenIntervals
    /\ intervals[i].stop <= currentTime
    /\ currentTime - intervals[i].stop <= 1
    /\ i < Len(intervals) => currentTime < intervals[i + 1].start

BeforeStartOf(i) ==
    /\ BetweenIntervals
    /\ currentTime < intervals[i].start
    /\ intervals[i].start - currentTime <= 1
    /\ i > 1 => intervals[i - 1].stop <= currentTime

Decided(left, ctrl) ==
    DayNumber(SeekTarget(intervals, currentTime, left, ctrl, multiplier,
                         startTime, stopTime).jump) # 0

SeekAlwaysDecides ==
    /\ DayNumber(currentTime) # 0
    /\ Len(intervals) > 0
          => \A left \in BOOLEAN, ctrl \in BOOLEAN : Decided(left, ctrl)

\* a plain seek that left its interval, so that the target was unset after
\* the in-interval branch and decided by the branch for outside, has been
\* committed
SeekAlwaysDecidesWitness ==
    /\ Len(intervals) > 0
    /\ Len(log) > 0
    /\ log[1] \in {"Jumping backwards", "Jumping forwards"}
    /\ IndexOf(intervals, currentTime) < 0
    /\ \E left \in BOOLEAN :
          IndexOf(intervals, currentTime - Seconds(left, multiplier)) >= 0

\* ---------------------------------------------------------------------
\* C29: on each new raw sample the oldest sample is popped exactly when
\* the queue, after the push, is longer than the window W: after the n-th
\* sample the queue holds the most recent min(n, W) samples.
LatestFixes(n, size) ==
    SubSeq(fixes, n - (IF n < size THEN n ELSE size) + 1, n)

QueueHoldsWindow ==
    [][TrackerPush
          => trackerStack' = LatestFixes(fixIndex', TRACKER_WINDOW)]_vars

\* what the code keeps: the most recent min(n, W - 1) samples
QueueHoldsWindowLessOne ==
    [][TrackerPush
          => trackerStack' = LatestFixes(fixIndex', TRACKER_WINDOW - 1)]_vars

\* ---------------------------------------------------------------------
\* C30: at every emission the running sum is the sum of the positions in
\* the queue, the emitted position is that sum divided by the length of
\* the queue, and the emitted time is that of queue[max(0, length - W/2)]
\* (counting from 0); while the fixes are read, a sample is emitted
\* exactly when the queue, after any pop, is longer than W/2.
RECURSIVE SumBetween(_, _, _)
SumBetween(queue, from, to) ==
    IF from > to THEN Cartesian3(0, 0, 0)
    ELSE IF from = to THEN queue[from].position
    ELSE CartesianAdd(SumBetween(queue, from, (from + to) \div 2),
                      SumBetween(queue, (from + to) \div 2 + 1, to))

SumOfPositions(queue) == SumBetween(queue, 1, Len(queue))

Emitted == Len(trackerPositions') = Len(trackerPositions) + 1

EmittedSample == trackerPositions'[Len(trackerPositions')]

EmissionIsQueueAverage ==
    [][/\ Emitted \/ trackerPositions' = trackerPositions
       /\ Emitted =>
            /\ trackerPositions = SubSeq(trackerPositions', 1, Len(trackerPositions))
            /\ trackerCartesian' = SumOfPositions(trackerStack')
            /\ EmittedSample.position =
                  Cartesian3(<<SumOfPositions(trackerStack').x, Len(trackerStack')>>,
                             <<SumOfPositions(trackerStack').y, Len(trackerStack')>>,
                             <<SumOfPositions(trackerStack').z, Len(trackerStack')>>)
            /\ EmittedSample.time =
                  trackerStack'[Max(0, Len(trackerStack') - TRACKER_WINDOW \div 2)
                                + 1].time
       /\ TrackerPush => (Emitted <=> Len(trackerStack') > TRACKER_WINDOW \div 2)]_vars

\* a track longer than the window has been read and drained: samples were
\* emitted before and after the first pop and during the drain
EmissionIsQueueAverageWitness ==
    /\ Len(fixes) > TRACKER_WINDOW
    /\ fixIndex = Len(fixes)
    /\ trackerStack = <<>>
    /\ Len(trackerPositions) > Len(fixes) - TRACKER_WINDOW \div 2
    /\ \E k \in 1..Len(fixes) : fixes[k].position # fixes[1].position

\* ---------------------------------------------------------------------
\* C31: the flush at the end of the input ends with an empty queue; each
\* of its turns pops one sample and emits one smoothed sample exactly when
\* samples remain after the pop, so a queue of L samples gives L - 1
\* emissions, and a track of a single fix gives no smoothed sample.
FlushPopsAndEmits ==
    [][TrackerDrain
          => /\ trackerStack' = Tail(trackerStack)
             /\ IF Len(trackerStack') > 0
                THEN Len(trackerPositions') = Len(trackerPositions) + 1
                ELSE trackerPositions' = trackerPositions]_vars

SingleFixEmitsNothing == Len(fixes) = 1 => trackerPositions = <<>>

Flushed == fixIndex = Len(fixes) /\ trackerStack = <<>>

FlushEndsEmpty ==
    /\ FlushPopsAndEmits
    /\ []SingleFixEmitsNothing
    /\ <>[]Flushed

\* a track of three fixes has been read and flushed: the queue of three
\* gave two smoothed samples
FlushEndsEmptyWitness ==
    /\ Len(fixes) = 3
    /\ Flushed
    /\ Len(trackerPositions) = 2

\* ---------------------------------------------------------------------
\* C32: while a video is active, after every tick its element is playing
\* if and only if the clock's running flag is set: a paused element is
\* started when the clock runs, a playing one is paused when it is stopped.
ElementFollowsClock ==
    [][(TickRaised /\ VideoPlaying)
       => (element'[currentVideo'].paused <=> ~shouldAnimate')]_vars

\* The clock was stopped while V1 played: the tick raised by the spacebar
\* has paused the element part of the way through the media
ElementFollowsClockWitness ==
    /\ currentVideo = "V1"
    /\ ticker["V1"]
    /\ ~shouldAnimate
    /\ element["V1"].paused
    /\ element["V1"].currentTime > 0

\* ---------------------------------------------------------------------
\* C33: in every per-pilot index, whatever was added and removed, each
\* flight or video is the data of at most one interval, so that the
\* snapshot the copy handler writes lists it once.
HeldOnce(index) ==
    \A i, j \in 1..Len(index) :
        (index[i].data # None /\ index[i].data = index[j].data) => i = j

PayloadHeldOnce ==
    \A p \in PilotNames : HeldOnce(flights[p]) /\ HeldOnce(videos[p])

\* what holds: the intervals of an index are apart and in order of time
IndexIsOrdered(index) ==
    \A i \in 1..(Len(index) - 1) : index[i].stop <= index[i + 1].start

IndexesAreOrdered ==
    \A p \in PilotNames : IndexIsOrdered(flights[p]) /\ IndexIsOrdered(videos[p])

\* ---------------------------------------------------------------------
\* C34: a flight or video destroyed with the Delete key is in no pilot's
\* index and is never again the active flight or video, whatever the
\* active pilot and the clock time.
InIndex(obj, index) == \E i \in 1..Len(index) : index[i].data = obj

DestroyedIsGone ==
    \A obj \in destroyed :
        /\ currentFlight # obj
        /\ currentVideo # obj
        /\ \A p \in PilotNames : ~InIndex(obj, flights[p]) /\ ~InIndex(obj, videos[p])

\* F1 was destroyed and a later tick, with its pilot active and the clock
\* where F1 had been, has found no flight
DestroyedIsGoneWitness ==
    /\ "F1" \in destroyed
    /\ pilot = "a"
    /\ currentTime \in 10..17
    /\ currentFlight = None
    /\ log = <<>>

\* ---------------------------------------------------------------------
\* C35: whenever an arrow-key seek is processed, also between the awaits of
\* load() and before loaded() has set the clock bounds, every interval of
\* the global index lies within the clock's start and stop bounds.
WithinBounds ==
    \A i \in 1..Len(intervals) :
        startTime <= intervals[i].start /\ intervals[i].stop <= stopTime

SeekFindsIndexWithinBounds ==
    [][(\E left \in BOOLEAN, ctrl \in BOOLEAN : ArrowKey(left, ctrl))
          => WithinBounds]_vars

\* what holds: once load() has called loaded(), the bounds cover the index
WithinBoundsOnceLoaded == loadPc > Len(LoadSteps) => WithinBounds

\* ---------------------------------------------------------------------
\* C36: with the clock inside its bounds, a snap-forward seek moves the
\* clock strictly forward, to an edge of an interval or to the stop bound
\* and never past it, unless the clock is at the stop bound, where it
\* stays; symmetrically a snap-backward seek moves it strictly backward
\* down to the start bound and then stays. The edges being finitely many,
\* repeated seeks reach the bound.
InsideBounds == startTime <= currentTime /\ currentTime <= stopTime

Edges == {intervals[i].start : i \in 1..Len(intervals)}
            \cup {intervals[i].stop : i \in 1..Len(intervals)}

Climbs ==
    IF currentTime = stopTime THEN currentTime' = currentTime
    ELSE /\ currentTime' > currentTime
         /\ currentTime' <= stopTime
         /\ currentTime' \in Edges \cup {stopTime}

Descends ==
    IF currentTime = startTime THEN currentTime' = currentTime
    ELSE /\ currentTime' < currentTime
         /\ currentTime' >= startTime
         /\ currentTime' \in Edges \cup {startTime}

SnapSeeksAreMonotone ==
    [][/\ (ArrowKey(FALSE, TRUE) /\ InsideBounds) => Climbs
       /\ (ArrowKey(TRUE, TRUE) /\ InsideBounds) => Descends]_vars

\* what holds: the same when the bounds cover the global index, as they do
\* once loaded() has run
SnapSeeksAreMonotoneWithinBounds ==
    [][/\ (ArrowKey(FALSE, TRUE) /\ InsideBounds /\ WithinBounds) => Climbs
       /\ (ArrowKey(TRUE, TRUE) /\ InsideBounds /\ WithinBounds) => Descends]_vars

\* ---------------------------------------------------------------------
\* C37: with the clock inside its bounds before the seek, a backward seek
\* never commits a time later than the current time and a forward seek
\* never one earlier, with and without Ctrl and wherever the clock is
\* relative to the intervals.
SeekKeepsDirection ==
    [][\A ctrl \in BOOLEAN :
          /\ (ArrowKey(TRUE, ctrl) /\ InsideBounds) => currentTime' <= currentTime
          /\ (ArrowKey(FALSE, ctrl) /\ InsideBounds) => currentTime' >= currentTime]_vars

\* a Ctrl+Left has gone back to the start bound, which an earlier plain
\* seek had moved before the first interval
SeekKeepsDirectionWitness ==
    /\ Len(intervals) > 0
    /\ Len(log) > 0
    /\ log[1] \in {"Jump assuming before", "Jumping to beginning"}
    /\ log[Len(log)] # "Code problem"
    /\ currentTime = startTime
    /\ currentTime < intervals[1].start
    /\ loadPc > Len(LoadSteps)

\* ---------------------------------------------------------------------
\* C38: after any sequence of seeks and calls of loaded(), the clock's
\* current time lies between its start bound and its stop bound: they do
\* at first, every arrow-key seek keeps it so, and every loaded() that
\* finds a non-empty global index makes it so.
SeekStep == \E left \in BOOLEAN, ctrl \in BOOLEAN : ArrowKey(left, ctrl)

\* A step that ends with loaded(): the last step of load(), or the drop
\* of a file, which creates an object while load() stays where it is
LoadedStep ==
    \/ loadPc' # loadPc /\ loadPc' > Len(LoadSteps)
    \/ /\ loadPc' = loadPc
       /\ \E obj \in Objects : objPilot[obj] = None /\ objPilot'[obj] # None

ClockStaysInsideBounds ==
    [][/\ (SeekStep /\ InsideBounds) => InsideBounds'
       /\ (LoadedStep /\ Len(intervals') > 0) => InsideBounds']_vars

\* A step that ends with loaded(last) for an object whose interval is
\* empty, so that no index holds it
LoadedEmptyStep ==
    /\ loadPc' = loadPc
    /\ \E obj \in Objects :
          /\ objPilot[obj] = None
          /\ objPilot'[obj] # None
          /\ IsEmpty(objInterval'[obj])

\* the same with every loaded(last) left out whose object has an empty
\* interval: the clock stays inside its bounds
ClockStaysInsideBoundsOfIndexed ==
    [][/\ (SeekStep /\ InsideBounds) => InsideBounds'
       /\ (LoadedStep /\ ~LoadedEmptyStep /\ Len(intervals') > 0)
              => InsideBounds']_vars

\* the single-fix flight was dropped after load(): the clock is at the
\* flight's fix, beyond the stop bound
ClockBeyondStopBound ==
    /\ objPilot["F8"] # None
    /\ loadPc > Len(LoadSteps)
    /\ currentTime = 43
    /\ stopTime = 40

\* the time is inside the bounds in every state but those a tick reaches
\* before loaded() has clamped the clock
InsideBoundsOnceLoaded == loadPc > Len(LoadSteps) => InsideBounds

\* C37 without its premise, which does not hold: a clock that ran below
\* its start bound before loaded() is taken forward by Ctrl+Left
SeekKeepsDirectionAnywhere ==
    [][\A ctrl \in BOOLEAN :
          /\ ArrowKey(TRUE, ctrl) => currentTime' <= currentTime
          /\ ArrowKey(FALSE, ctrl) => currentTime' >= currentTime]_vars

(* ---------------------------------------------------------------------- *)
(* C39                                                                    *)
(* ---------------------------------------------------------------------- *)
\* C39: with no other writer of the clock's rate, after any sequence of
\* activations and deactivations of videos and images (from a gap, from
\* one video straight to another, by Delete of the active video, which
\* stops it twice): whenever no video is active the magnitude of the
\* clock's rate is what it was before the first activation, DEFAULT_RATE,
\* and while a video is active it is that video's rate.
RateFollowsVideo ==
    Abs(multiplier) = IF currentVideo = None THEN DEFAULT_RATE
                      ELSE VideoRate(currentVideo)

\* the video V1 was started, which recorded the rate, and deleted while
\* it was active: the rate is back at DEFAULT_RATE
RateFollowsVideoWitness ==
    /\ "V1" \in destroyed
    /\ currentVideo = None
    /\ originalRate["V1"] # 0
    /\ Abs(multiplier) = DEFAULT_RATE

\* no step goes from one active video straight to another: violated, the
\* resolver does make such steps
NoVideoToVideo ==
    [][~(/\ currentVideo # None
         /\ currentVideo' # None
         /\ currentVideo' # currentVideo)]_vars

(* ---------------------------------------------------------------------- *)
(* C40                                                                    *)
(* ---------------------------------------------------------------------- *)
\* C40: given fixes ordered by time, the times of the smoothed samples do
\* not decrease in the order they are emitted, over the loop on the fixes
\* and the drain that follows it, and every such time is the time of one
\* of the fixes.
FixesOrdered ==
    \A k \in 1..Len(fixes) - 1 : fixes[k].time <= fixes[k + 1].time

EmissionTimesOrdered ==
    FixesOrdered =>
        /\ \A s \in 1..Len(trackerPositions) - 1 :
              trackerPositions[s].time <= trackerPositions[s + 1].time
        /\ \A s \in 1..Len(trackerPositions) :
              \E k \in 1..Len(fixes) : fixes[k].time = trackerPositions[s].time

\* a track longer than the window has been drained: samples were emitted
\* in the loop and in the drain, two of them with the same time
EmissionTimesOrderedWitness ==
    /\ FixesOrdered
    /\ Len(fixes) > TRACKER_WINDOW
    /\ fixIndex = Len(fixes)
    /\ Len(trackerStack) = 0
    /\ Len(trackerPositions) > Len(fixes) - TRACKER_WINDOW \div 2
    /\ \E s \in 1..Len(trackerPositions) - 1 :
          trackerPositions[s].time = trackerPositions[s + 1].time

\* the times of the smoothed samples strictly increase: violated when the
\* drain begins
EmissionTimesIncrease ==
    \A s \in 1..Len(trackerPositions) - 1 :
        trackerPositions[s].time < trackerPositions[s + 1].time

====
